---- MODULE Spec2Model ----
(***************************************************************************)
(* Model of the Sparta provisioning workflow (provision_build.go):         *)
(* Provision's step loop, the workflow steps, the transaction context      *)
(* (rollback functions, finalizers, step durations), the upload fan-out    *)
(* and the in-place update fan-out.                                        *)
(***************************************************************************)
EXTENDS Integers, Sequences, FiniteSets, Bags, TLC

\* Bounds of the model
MaxRollbackHooks == 1
MaxChanges == 2
MaxRoleRefs == 3
MaxKeyLen == 3
MaxTime == 2
MaxKeyCalls == 2

VARIABLES
    userdata,                   \* workflowContext.userdata: the inputs of Provision
    bucket,                     \* the destination bucket as it is in the object store
    pc,                         \* position of the controlling thread
    step,                       \* the loop variable `step` of Provision
    ret,                        \* (next, err) of the last step(ctx) call
    stepLog,                    \* steps invoked by the loop, in order
    phases,                     \* canonical phases begun, in order
    callStack,                  \* workflow functions entered and not yet returned
    stepDurations,              \* transaction.stepDurations (names)
    rollbackFunctions,          \* transaction.rollbackFunctions
    finalizerFunctions,         \* transaction.finalizerFunctions
    files,                      \* temporary local files that exist
    s3objects,                  \* objects present in the bucket
    pool,                       \* tasks of the running worker pool
    s3CodeZipURL,               \* context.s3CodeZipURL
    siteUploadURL,              \* userdata.s3SiteContext.s3UploadURL
    s3BucketVersioningEnabled,  \* context.s3BucketVersioningEnabled
    cfTemplate,                 \* resource types held by context.cfTemplate
    changeSets,                 \* change-sets that exist in the orchestration service
    remoteCalls,                \* remote calls issued so far (a bag)
    rb,                         \* goroutines of rollback(): unit -> state
    wg,                         \* the sync.WaitGroup counter of rollback()
    rollbackCount,              \* number of calls of ctx.rollback()
    finalizersRun,              \* finalizers executed, in order
    finIdx,                     \* index of the finalizer loop
    retErr,                     \* the value Provision returned
    lambdaIAMRoleNameMap,       \* context.lambdaIAMRoleNameMap
    addResourceCalls,           \* cfTemplate.AddResource calls of verifyIAMRoles, in order
    getRoleCalls,               \* iamSvc.GetRole calls, in order
    keyNames,                   \* versionAwareS3KeyName called on its own: inputs and results
    validation                  \* callValidationHooks called on its own: handlers and calls

\* The state only verifyIAMRoles writes
roleVars == <<lambdaIAMRoleNameMap, addResourceCalls, getRoleCalls>>

vars == <<userdata, bucket, roleVars, keyNames, validation, pc, step, ret, stepLog, phases, callStack, stepDurations,
          rollbackFunctions, finalizerFunctions, files, s3objects, pool,
          s3CodeZipURL, siteUploadURL, s3BucketVersioningEnabled, cfTemplate,
          changeSets, remoteCalls, rb, wg, rollbackCount, finalizersRun,
          finIdx, retErr>>

\* Names of the temporary local artifacts and of the uploaded objects
CodeZip == "code.zip"
SiteZip == "S3Site.zip"
TemplateFile == "cftemplate.json"
PipelineZip == "pipeline.zip"

Range(s) == {s[i] : i \in 1..Len(s)}

\* A remote call and its outcome
Call(name, arg, ok) == [call |-> name, arg |-> arg, ok |-> ok]
Issue(calls, c) == calls (+) SetToBag({c})

\* A role reference: a literal role name ("" when unset) and/or an inline
\* role definition, identified by its logical name ("nil" when unset)
RoleNames == {"r1", "r2"}
LogicalNames == {"L1", "L2"}
RoleRefs == [roleName : {""} \cup RoleNames, roleDefinition : {"nil"} \cup LogicalNames]

\* The sequences over S of length at most n
RECURSIVE SeqsUpTo(_, _)
SeqsUpTo(S, n) ==
    IF n = 0 THEN {<<>>}
    ELSE LET shorter == SeqsUpTo(S, n - 1) IN
         shorter \cup {Append(q, x) : q \in {r \in shorter : Len(r) = n - 1}, x \in S}

\* LambdaAWSInfo: the role of the function and those of its custom resources
LambdaAWSInfo(roleName, roleDefinition, customResources) ==
    [RoleName |-> roleName, RoleDefinition |-> roleDefinition,
     customResources |-> customResources]

\* The function lists with at most n role references (functions plus custom
\* resources): a first function with c custom resources, then a list with at
\* most n - 1 - c references
RECURSIVE LambdaAWSInfos(_)
LambdaAWSInfos(n) ==
    IF n = 0 THEN {<<>>}
    ELSE {<<>>} \cup UNION {
            {<<LambdaAWSInfo(r.roleName, r.roleDefinition, crs)>> \o rest :
                r \in RoleRefs,
                crs \in {q \in SeqsUpTo(RoleRefs, c) : Len(q) = c},
                rest \in LambdaAWSInfos(n - 1 - c)} : c \in 0..(n - 1)}

\* The function lists of the Provision runs: one function with an inline role,
\* or one function with a literal role and a custom resource with another
ProvisionLambdaAWSInfos ==
    {<<LambdaAWSInfo("", "L1", <<>>)>>,
     <<LambdaAWSInfo("r1", "nil", <<[roleName |-> "r2", roleDefinition |-> "nil"]>>)>>}

\* The inputs of Provision. workflowHooks: the *WorkflowHooks argument is not
\* nil; hooks: the WorkflowHooks value holds at least one hook of some kind;
\* rollbackHooks: the number of handlers callRollbackHook iterates over (the
\* Rollbacks slice plus the deprecated single Rollback hook)
UserDataOver(infos) ==
    {u \in [noop : BOOLEAN, inPlace : BOOLEAN, codePipelineTrigger : BOOLEAN,
            hasLambda : BOOLEAN, lambdaAWSInfos : infos, s3Site : BOOLEAN,
            api : BOOLEAN, precondOK : BOOLEAN, workflowHooks : BOOLEAN,
            hooks : BOOLEAN, rollbackHooks : 0..MaxRollbackHooks] :
        /\ (u.hasLambda <=> u.lambdaAWSInfos # <<>>)
        /\ (~u.workflowHooks => ~u.hooks)
        /\ (~u.hooks => u.rollbackHooks = 0)
        /\ (~u.hasLambda => u.precondOK)}
UserData == UserDataOver(ProvisionLambdaAWSInfos \cup {<<>>})

\* A nil *s3UploadURL
NilURL == [location |-> <<>>, path |-> <<>>, version |-> ""]

\* The regions, and the region of the active session
\* (*ctx.context.awsSession.Config.Region)
Regions == {"us-west-2", "us-east-1"}
SessionRegion == "us-west-2"

\* The destination bucket: whether versioning is enabled on it and where it is.
\* The run reads both and changes neither
Buckets == [versioningEnabled : BOOLEAN, region : Regions]
VersionedBucket == [versioningEnabled |-> TRUE, region |-> SessionRegion]

\* No call of the naming policy on its own
NoKeyNames == [s3DefaultKey |-> <<>>, s3VersioningEnabled |-> FALSE, calls |-> <<>>]

\* A map of the context before make()
EmptyMap == [n \in {} |-> "nil"]

\* callValidationHooks has not been called
NoValidation == [validators |-> <<>>, marshaledTemplate |-> <<>>, calls |-> <<>>]

\* The state after the construction of the context, lines 1534-1570
InitContext ==
    /\ pc = "Provision"
    /\ step = "nil"
    /\ ret = [next |-> "nil", err |-> "nil"]
    /\ stepLog = <<>>
    /\ phases = <<>>
    /\ callStack = <<>>
    /\ stepDurations = <<>>
    /\ rollbackFunctions = <<>>
    /\ finalizerFunctions = <<>>
    /\ files = {}
    /\ s3objects = {}
    /\ pool = <<>>
    /\ s3CodeZipURL = NilURL
    /\ siteUploadURL = NilURL
    /\ s3BucketVersioningEnabled = FALSE
    /\ cfTemplate = {}
    /\ changeSets = {}
    /\ remoteCalls = EmptyBag
    /\ rb = <<>>
    /\ wg = 0
    /\ rollbackCount = 0
    /\ finalizersRun = <<>>
    /\ finIdx = 1
    /\ retErr = "none"
    /\ lambdaIAMRoleNameMap = EmptyMap
    /\ addResourceCalls = <<>>
    /\ getRoleCalls = <<>>

Init ==
    /\ userdata \in UserData
    /\ bucket \in Buckets
    /\ keyNames = NoKeyNames
    /\ validation = NoValidation
    /\ InitContext

\* validateSpartaPreconditions: rejects invalid function descriptors
ValidateSpartaPreconditions(u) == IF u.precondOK THEN "nil" ELSE "invalid lambda functions"

\* errors.Wrapf / errors.Wrap: nil stays nil, anything else is wrapped
WrapErrNil(e, msg) == "nil"
WrapErr(e, msg) == IF e = "nil" THEN "nil" ELSE msg \o ": " \o e

\* Provision, lines 1585-1591: no functions and no hooks
NoFunctionsWarnOnly(u) == FALSE
NoFunctionsProvided(u) == ~u.hasLambda /\ ~u.workflowHooks

\* Provision, lines 1530-1594: validation, context construction, loop entry
ProvisionEnter ==
    /\ pc = "Provision"
    /\ LET err == ValidateSpartaPreconditions(userdata) IN
       IF err # "nil"
       THEN /\ retErr' = WrapErr(err, "Failed to validate preconditions")
            /\ pc' = "returned"
            /\ step' = step
       ELSE IF NoFunctionsProvided(userdata)
       THEN /\ retErr' = "No lambda functions provided to Sparta.Provision()"
            /\ pc' = "returned"
            /\ step' = step
       ELSE /\ retErr' = retErr
            /\ pc' = "loop"
            /\ step' = "verifyIAMRoles"
    /\ UNCHANGED <<userdata, bucket, roleVars, keyNames, validation, ret, stepLog, phases, callStack, stepDurations,
                   rollbackFunctions, finalizerFunctions, files, s3objects, pool,
                   s3CodeZipURL, siteUploadURL, s3BucketVersioningEnabled,
                   cfTemplate, changeSets, remoteCalls, rb, wg, rollbackCount,
                   finalizersRun, finIdx>>

\* The transition table of the step chain: the step each step returns on success
NextStepSkipPreconditions(s) ==
    CASE s = "verifyIAMRoles" -> "createPackageStep"
      [] s = "verifyAWSPreconditions" -> "createPackageStep"
      [] s = "createPackageStep" -> "createUploadStep"
      [] s = "createUploadStep" -> "validateSpartaPostconditions"
      [] s = "validateSpartaPostconditions" -> "ensureCloudFormationStack"
      [] OTHER -> "nil"
NextStep(s) ==
    CASE s = "verifyIAMRoles" -> "verifyAWSPreconditions"
      [] s = "verifyAWSPreconditions" -> "createPackageStep"
      [] s = "createPackageStep" -> "createUploadStep"
      [] s = "createUploadStep" -> "validateSpartaPostconditions"
      [] s = "validateSpartaPostconditions" -> "ensureCloudFormationStack"
      [] OTHER -> "nil"

\* What a step returns: (next, nil) on success, (nil, err) on failure
StepResult(s, err) ==
    IF err = "nil" THEN [next |-> NextStep(s), err |-> "nil"]
    ELSE [next |-> "nil", err |-> err]

\* Variables no sequential step touches
loopVars == <<userdata, bucket, roleVars, keyNames, validation, step, rb, wg, rollbackCount, finalizersRun, finIdx, retErr>>

\* Template resources: logical name, type and environment variables
Resource(name, type, env) == [name |-> name, type |-> type, env |-> env]
RequiredEnvVars == {"envVarDiscoveryInformation", "envVarLogLevel"}

\* Template.AddResource: the template maps a logical name to one resource
AddResource(template, r) == {x \in template : x.name # r.name} \cup {r}

\* The handles stored in the role map, lines 650, 666 and 687
GetAtt(logicalName, attribute) == <<"GetAtt", logicalName, attribute>>
String(value) == <<"String", value>>

\* The Arn of the role that GetRole returns for a role name
RoleArn(roleName) == "arn:aws:iam::role/" \o roleName

\* The role references of one function in the order verifyIAMRoles visits
\* them: the function's own, then those of its custom resources
FunctionRoleRefs(f) ==
    <<[roleName |-> f.RoleName, roleDefinition |-> f.RoleDefinition]>> \o f.customResources

\* lines 618-626: the role names a function adds to allRoleNames
RECURSIVE RoleNamesOf(_)
RoleNamesOf(refs) ==
    IF refs = <<>> THEN <<>>
    ELSE (IF Head(refs).roleName # "" THEN <<Head(refs).roleName>> ELSE <<>>)
            \o RoleNamesOf(Tail(refs))

\* lines 641, 660 and 674: `_, exists := lambdaIAMRoleNameMap[name]`
RoleNeverKnown(map, name) == FALSE
RoleKnown(map, name) == name \in DOMAIN map

\* lines 639-652 and 656-668: register one inline role definition
RegisterDefinition(st, logicalName) ==
    IF logicalName = "nil" \/ RoleKnown(st.map, logicalName) THEN st
    ELSE [st EXCEPT !.template = AddResource(@, Resource(logicalName, "AWS::IAM::Role", {})),
                    !.added = Append(@, logicalName),
                    !.map = (logicalName :> GetAtt(logicalName, "Arn")) @@ @]

RECURSIVE RegisterDefinitions(_, _)
RegisterDefinitions(st, refs) ==
    IF refs = <<>> THEN st
    ELSE RegisterDefinitions(RegisterDefinition(st, Head(refs).roleDefinition), Tail(refs))

\* lines 617-670: the loop over the functions from index i on; the profile
\* decorator fails at function p (0: it is nil or never fails)
RECURSIVE AssembleRoles(_, _, _, _)
AssembleRoles(st, infos, i, p) ==
    IF i > Len(infos) THEN st
    ELSE LET refs == FunctionRoleRefs(infos[i])
             named == [st EXCEPT !.names = @ \o RoleNamesOf(refs)]
         IN IF p = i
            THEN [named EXCEPT !.err = "Failed to call lambda profile decorator"]
            ELSE AssembleRoles(RegisterDefinitions(named, refs), infos, i + 1, p)

\* lines 682-684: an error of GetRole ends the step
GetRoleErrorIgnored(ok) == FALSE
GetRoleAborts(ok) == ~ok

\* line 687: the handle cached for a literal role name
LiteralRoleHandleByName(roleName) == String(roleName)
LiteralRoleHandle(roleName) == String(RoleArn(roleName))

\* lines 673-689: look up the role names in order; existing is the set of
\* role names for which GetRole succeeds
RECURSIVE CheckRoleNames(_, _, _)
CheckRoleNames(st, names, existing) ==
    IF names = <<>> THEN st
    ELSE LET n == Head(names) IN
         IF RoleKnown(st.map, n) THEN CheckRoleNames(st, Tail(names), existing)
         ELSE LET ok == n \in existing
                  called == [st EXCEPT !.lookups = Append(@, Call("GetRole", n, ok))]
              IN IF GetRoleAborts(ok) THEN [called EXCEPT !.err = "GetRole failed"]
                 ELSE IF ok
                 THEN CheckRoleNames([called EXCEPT !.map = (n :> LiteralRoleHandle(n)) @@ @],
                                     Tail(names), existing)
                 ELSE CheckRoleNames(called, Tail(names), existing)

\* verifyIAMRoles, lines 612-694: the map is made anew, then filled
VerifyIAMRolesResult(infos, template, p, existing) ==
    LET made == [map |-> EmptyMap, template |-> template, added |-> <<>>,
                 names |-> <<>>, lookups |-> <<>>, err |-> "nil"]
        assembled == AssembleRoles(made, infos, 1, p)
    IN IF assembled.err # "nil" THEN assembled
       ELSE CheckRoleNames(assembled, assembled.names, existing)

\* The remote calls of a sequence, issued
RECURSIVE IssueAll(_, _)
IssueAll(calls, cs) ==
    IF cs = <<>> THEN calls ELSE IssueAll(Issue(calls, Head(cs)), Tail(cs))

\* verifyIAMRoles, lines 605-695
VerifyIAMRoles ==
    /\ pc = "loop" /\ step = "verifyIAMRoles"
    /\ stepLog' = Append(stepLog, step)
    /\ phases' = Append(phases, "verifyIAMRoles")
    /\ \E p \in 0..Len(userdata.lambdaAWSInfos), existing \in SUBSET RoleNames :
        LET r == VerifyIAMRolesResult(userdata.lambdaAWSInfos, cfTemplate, p, existing) IN
        /\ lambdaIAMRoleNameMap' = r.map
        /\ cfTemplate' = r.template
        /\ addResourceCalls' = addResourceCalls \o r.added
        /\ getRoleCalls' = getRoleCalls \o r.lookups
        /\ remoteCalls' = IssueAll(remoteCalls, r.lookups)
        /\ ret' = StepResult(step, r.err)
    /\ stepDurations' = Append(stepDurations, "Verifying IAM roles")
    /\ pc' = "stepReturned"
    /\ UNCHANGED <<userdata, bucket, keyNames, validation, step, rb, wg, rollbackCount, finalizersRun, finIdx,
                   retErr>>
    /\ UNCHANGED <<callStack, rollbackFunctions, finalizerFunctions, files, s3objects,
                   pool, s3CodeZipURL, siteUploadURL, s3BucketVersioningEnabled,
                   changeSets>>

\* The guard of the remote checks, lines 702-708: they are made in a run that is
\* not a dry run and has at least one function
ChecksBucket(u) == ~u.noop /\ Len(u.lambdaAWSInfos) # 0

\* The test of line 725: a CodePipeline trigger needs a versioned bucket
VersioningNeverRequired(u, isEnabled) == FALSE
VersioningRequired(u, isEnabled) == u.codePipelineTrigger /\ ~isEnabled

\* The test of line 746
RegionNeverMismatches(bucketRegion, sessionRegion) == FALSE
RegionMismatch(bucketRegion, sessionRegion) == bucketRegion # sessionRegion

\* The errors of lines 726 and 747
VersioningError == "s3 Bucket for CodePipeline trigger doesn't have a versioning policy enabled"
RegionMismatchError == "region does not match bucket region"

\* verifyAWSPreconditions, lines 698-800
VerifyAWSPreconditions ==
    /\ pc = "loop" /\ step = "verifyAWSPreconditions"
    /\ stepLog' = Append(stepLog, step)
    /\ phases' = Append(phases, "verifyAWSPreconditions")
    /\ IF ~ChecksBucket(userdata)
       THEN /\ ret' = StepResult(step, "nil")
            /\ UNCHANGED <<remoteCalls, s3BucketVersioningEnabled>>
       ELSE \E versioningPolicyErr \in BOOLEAN :
            IF versioningPolicyErr
            THEN /\ remoteCalls' = Issue(remoteCalls, Call("BucketVersioningEnabled", "bucket", FALSE))
                 /\ ret' = StepResult(step, "versioning policy error")
                 /\ UNCHANGED s3BucketVersioningEnabled
            ELSE /\ s3BucketVersioningEnabled' = bucket.versioningEnabled
                 /\ IF VersioningRequired(userdata, bucket.versioningEnabled)
                    THEN /\ remoteCalls' = Issue(remoteCalls, Call("BucketVersioningEnabled", "bucket", TRUE))
                         /\ ret' = StepResult(step, VersioningError)
                    ELSE \E bucketRegionErr \in BOOLEAN :
                         /\ remoteCalls' = Issue(Issue(remoteCalls,
                                 Call("BucketVersioningEnabled", "bucket", TRUE)),
                                 Call("BucketRegion", "bucket", ~bucketRegionErr))
                         /\ ret' = StepResult(step,
                               IF bucketRegionErr THEN "failed to determine region"
                               ELSE IF RegionMismatch(bucket.region, SessionRegion)
                               THEN RegionMismatchError
                               ELSE "nil")
    /\ stepDurations' = Append(stepDurations, "Verifying AWS preconditions")
    /\ pc' = "stepReturned"
    /\ UNCHANGED loopVars
    /\ UNCHANGED <<callStack, rollbackFunctions, finalizerFunctions, files, s3objects,
                   pool, s3CodeZipURL, siteUploadURL, cfTemplate, changeSets>>

\* createPackageStep, lines 803-897: the points at which the step can fail
PackageFailurePoints(u) ==
    {"Build", "TemporaryFile", "AnnotateAddToZip", "Close", "none"}
      \cup (IF u.workflowHooks /\ u.hooks THEN {"PreBuild", "PostBuild", "Archive"} ELSE {})

CreatePackageStep ==
    /\ pc = "loop" /\ step = "createPackageStep"
    /\ stepLog' = Append(stepLog, step)
    /\ phases' = Append(phases, "createPackageStep")
    /\ \E f \in PackageFailurePoints(userdata) :
        /\ files' = IF f \in {"PreBuild", "Build", "PostBuild", "TemporaryFile"}
                    THEN files ELSE files \cup {CodeZip}
        /\ ret' = StepResult(step, IF f = "none" THEN "nil" ELSE f)
    /\ stepDurations' = Append(stepDurations, "Creating code bundle")
    /\ pc' = "stepReturned"
    /\ UNCHANGED loopVars
    /\ UNCHANGED <<callStack, rollbackFunctions, finalizerFunctions, s3objects, pool,
                   s3CodeZipURL, siteUploadURL, s3BucketVersioningEnabled, cfTemplate,
                   changeSets, remoteCalls>>

\* registerRollback / registerFinalizer, lines 226-240: append to the slice the
\* caller read (list is the caller's view of the slice)
Register(list, x) == Append(list, x)

\* newWorkerPool(tasks, len(tasks)).Run(): every task runs as its own
\* concurrent unit; Run returns once all of them are done
NewWorkerPool(ids) == [t \in ids |-> [pc |-> "start", err |-> "nil", loc |-> <<>>]]
PoolDone == \A t \in DOMAIN pool : pool[t].pc = "done"
PoolErrors == {t \in DOMAIN pool : pool[t].err # "nil"}

\* The test of the error list Run returned, lines 980-982 and 1160-1162
AggregateErrorIgnored(errs, msg) == "nil"
AggregateError(errs, msg) == IF errs # {} THEN msg ELSE "nil"

\* A task moves on (its local copy of a slice goes out of scope) or ends with an error
TaskAt(t, where) == [pool EXCEPT ![t].pc = where, ![t].loc = <<>>]
TaskFailed(t, err) == [pool EXCEPT ![t].pc = "done", ![t].err = err, ![t].loc = <<>>]

\* createUploadStep, lines 905-974: one task per artifact
UploadTasksCodeOnly(u) == IF u.hasLambda THEN {CodeZip} ELSE {}
UploadTasks(u) ==
    (IF u.hasLambda THEN {CodeZip} ELSE {}) \cup (IF u.s3Site THEN {SiteZip} ELSE {})

\* Variables the tasks of a fan-out never touch
taskFrame == <<userdata, bucket, roleVars, keyNames, validation, pc, step, ret, stepLog, phases, callStack, stepDurations,
               s3BucketVersioningEnabled, cfTemplate, rb, wg, rollbackCount,
               finalizersRun, finIdx, retErr>>

\* createUploadStep, lines 901-977: build the tasks and start the pool
CreateUploadBegin ==
    /\ pc = "loop" /\ step = "createUploadStep"
    /\ stepLog' = Append(stepLog, step)
    /\ phases' = Append(phases, "createUploadStep")
    /\ callStack' = <<"createUploadStep">>
    /\ pool' = NewWorkerPool(UploadTasks(userdata))
    /\ pc' = "poolWait"
    /\ UNCHANGED loopVars
    /\ UNCHANGED <<ret, stepDurations, rollbackFunctions, finalizerFunctions, files,
                   s3objects, s3CodeZipURL, siteUploadURL, s3BucketVersioningEnabled,
                   cfTemplate, changeSets, remoteCalls>>

\* ---------------------------------------------------------------------------
\* The object-key naming policy and the upload URLs. A key and a URL are
\* sequences of tokens; "." and "/" are the tokens path.Ext looks at.

\* The keys and the clock readings the naming policy is checked on
KeyTokens == {"a", ".", "/"}
Keys == SeqsUpTo(KeyTokens, MaxKeyLen)
Times == 1..MaxTime

\* The string a token sequence stands for
RECURSIVE Join(_)
Join(tokens) ==
    IF tokens = <<>> THEN "" ELSE Head(tokens) \o Join(Tail(tokens))

\* path.Ext, line 503: the suffix beginning at the final dot of the final
\* slash-separated element; empty if that element has no dot
Ext(key) ==
    LET dots == {i \in 1..Len(key) : key[i] = "." /\ \A j \in i..Len(key) : key[j] # "/"}
    IN  IF dots = {} THEN <<>>
        ELSE SubSeq(key, CHOOSE i \in dots : \A j \in dots : j <= i, Len(key))

\* strings.TrimSuffix, line 504
TrimSuffix(s, suffix) ==
    IF Len(suffix) <= Len(s) /\ SubSeq(s, Len(s) - Len(suffix) + 1, Len(s)) = suffix
    THEN SubSeq(s, 1, Len(s) - Len(suffix))
    ELSE s

\* fmt.Sprintf("%s-%d", s3DefaultKey, time.Now().UnixNano()), line 507
SaltWithoutTime(s3DefaultKey, now) == Join(s3DefaultKey) \o "-"
Salt(s3DefaultKey, now) == Join(s3DefaultKey) \o "-" \o ToString(now)

\* hex.EncodeToString of the SHA-1 digest of the salt, lines 506-514; the
\* digest is taken to be collision free
Sha1Hex(salt) == "sha1(" \o salt \o ")"

\* The test of line 502: the default key is kept iff versioning is enabled
KeepsDefaultKeyNever(s3VersioningEnabled) == FALSE
KeepsDefaultKey(s3VersioningEnabled) == s3VersioningEnabled

\* versionAwareS3KeyName, lines 500-525 (sha1's Write never returns an error)
VersionAwareS3KeyName(s3DefaultKey, s3VersioningEnabled, now) ==
    IF KeepsDefaultKey(s3VersioningEnabled)
    THEN s3DefaultKey
    ELSE LET extension == Ext(s3DefaultKey)
             prefixString == TrimSuffix(s3DefaultKey, extension)
         IN  prefixString \o <<"-", Sha1Hex(Salt(s3DefaultKey, now))>> \o extension

\* The bucket of the run and the base names of the local files
S3Bucket == "s3Bucket"
BaseName(t) ==
    IF t = CodeZip THEN <<"code", ".", "zip">>
    ELSE IF t = SiteZip THEN <<"S3Site", ".", "zip">>
    ELSE <<"cftemplate", ".", "json">>

\* defaultS3KeyName of uploadLocalFileToS3, line 536
DefaultS3KeyName(t) == <<"serviceName", "/">> \o BaseName(t)

\* The URL of the noop branch of uploadLocalFileToS3, lines 561-563
SyntheticURLWithoutBucket(s3Bucket, s3ObjectKey) ==
    <<"https://", "s3.amazonaws.com", "/">> \o s3ObjectKey
SyntheticURL(s3Bucket, s3ObjectKey) ==
    <<"https://", s3Bucket \o "-s3.amazonaws.com", "/">> \o s3ObjectKey

\* The location spartaS3.UploadLocalFileToS3 reports for the object of t, line 568
UploadLocation(t) == <<"https://", "uploadLocation", "/", t>>

\* newS3UploadURL, lines 75-92: the location, and the path of the URL without
\* its leading "/" (no URL of the model carries a versionId)
NewS3UploadURL(s3URL) ==
    [location |-> s3URL, path |-> SubSeq(s3URL, 4, Len(s3URL)), version |-> ""]

\* newS3UploadURL stored by the task that uploaded t, lines 916 and 969
StoreURL(t, s3URL) ==
    /\ s3CodeZipURL' = IF t = CodeZip THEN NewS3UploadURL(s3URL) ELSE s3CodeZipURL
    /\ siteUploadURL' = IF t = SiteZip THEN NewS3UploadURL(s3URL) ELSE siteUploadURL

\* uploadBinaryTask / uploadSiteTask up to the noop branch of uploadLocalFileToS3,
\* lines 908-912, 926-964 and 530-563
UploadTaskStart(t) ==
    /\ callStack = <<"createUploadStep">>
    /\ pool[t].pc = "start"
    /\ \E f \in (IF t = SiteZip THEN {"TemporaryFile", "AddToZip", "none"} ELSE {"none"}) :
        /\ files' = IF t = SiteZip /\ f # "TemporaryFile" THEN files \cup {SiteZip} ELSE files
        /\ IF f # "none"
           THEN /\ pool' = TaskFailed(t, f)
                /\ UNCHANGED <<s3CodeZipURL, siteUploadURL>>
           ELSE IF userdata.noop
           THEN /\ pool' = TaskAt(t, "done")
                /\ \E now \in Times :
                    StoreURL(t, SyntheticURL(S3Bucket,
                        VersionAwareS3KeyName(DefaultS3KeyName(t),
                                              s3BucketVersioningEnabled, now)))
           ELSE /\ pool' = TaskAt(t, "registerFinalizer")
                /\ UNCHANGED <<s3CodeZipURL, siteUploadURL>>
    /\ UNCHANGED taskFrame
    /\ UNCHANGED <<rollbackFunctions, finalizerFunctions, s3objects, changeSets, remoteCalls>>

\* registerFileCleanupFinalizer called from a task, line 566: the read of the slice
TaskFinalizerRead(t) ==
    /\ pool[t].pc = "registerFinalizer"
    /\ pool' = [pool EXCEPT ![t].pc = "appendFinalizer", ![t].loc = finalizerFunctions]
    /\ UNCHANGED taskFrame
    /\ UNCHANGED <<rollbackFunctions, finalizerFunctions, files, s3objects, s3CodeZipURL,
                   siteUploadURL, changeSets, remoteCalls>>

\* ... and the write of the appended slice, line 239
TaskFinalizerWrite(t) ==
    /\ pool[t].pc = "appendFinalizer"
    /\ finalizerFunctions' = Register(pool[t].loc, t)
    /\ pool' = TaskAt(t, "upload")
    /\ UNCHANGED taskFrame
    /\ UNCHANGED <<rollbackFunctions, files, s3objects, s3CodeZipURL, siteUploadURL,
                   changeSets, remoteCalls>>

\* spartaS3.UploadLocalFileToS3 called from a task, lines 568-576
TaskUpload(t) ==
    /\ pool[t].pc = "upload"
    /\ \E ok \in BOOLEAN :
        /\ remoteCalls' = Issue(remoteCalls, Call("Upload", t, ok))
        /\ s3objects' = IF ok THEN s3objects \cup {t} ELSE s3objects
        /\ pool' = IF ok THEN TaskAt(t, "registerRollback")
                   ELSE TaskFailed(t, "Failed to upload local file to S3")
    /\ UNCHANGED taskFrame
    /\ UNCHANGED <<rollbackFunctions, finalizerFunctions, files, s3CodeZipURL,
                   siteUploadURL, changeSets>>

\* registerRollback called from a task, line 577: the read of the slice
TaskRollbackRead(t) ==
    /\ pool[t].pc = "registerRollback"
    /\ pool' = [pool EXCEPT ![t].pc = "appendRollback", ![t].loc = rollbackFunctions]
    /\ UNCHANGED taskFrame
    /\ UNCHANGED <<rollbackFunctions, finalizerFunctions, files, s3objects, s3CodeZipURL,
                   siteUploadURL, changeSets, remoteCalls>>

\* ... the write of the appended slice, line 230, and the task's result
TaskRollbackWrite(t) ==
    /\ pool[t].pc = "appendRollback"
    /\ rollbackFunctions' = Register(pool[t].loc, t)
    /\ pool' = TaskAt(t, "done")
    /\ StoreURL(t, UploadLocation(t))
    /\ UNCHANGED taskFrame
    /\ UNCHANGED <<finalizerFunctions, files, s3objects, changeSets, remoteCalls>>

\* createUploadStep, lines 977-984: Run returned, the step returns
CreateUploadJoin ==
    /\ pc = "poolWait" /\ callStack = <<"createUploadStep">>
    /\ PoolDone
    /\ ret' = StepResult(step, AggregateError(PoolErrors,
                                              "Encountered multiple errors during upload"))
    /\ stepDurations' = Append(stepDurations, "Uploading code")
    /\ pool' = <<>>
    /\ callStack' = <<>>
    /\ pc' = "stepReturned"
    /\ UNCHANGED loopVars
    /\ UNCHANGED <<stepLog, phases, rollbackFunctions, finalizerFunctions, files,
                   s3objects, s3CodeZipURL, siteUploadURL, s3BucketVersioningEnabled,
                   cfTemplate, changeSets, remoteCalls>>

\* The Environment of a function resource that is nil, and one whose Variables
\* are not a map[string]interface{}; any other env is the set of keys of the map
NilEnvironment == {"<nil>"}
UnsupportedVariables == {"<unsupported>"}

\* validateSpartaPostconditions, lines 1296-1319: the errors appended for one resource
ResourceErrs(r) ==
    IF r.type # "AWS::Lambda::Function" THEN <<>>
    ELSE IF r.env = NilEnvironment
    THEN <<[resource |-> r.name, problem |-> "does not include environment info"]>>
    ELSE IF r.env = UnsupportedVariables
    THEN <<[resource |-> r.name, problem |-> "environment vars are unsupported type"]>>
    ELSE LET key(k) == IF k \in r.env THEN <<>>
                       ELSE <<[resource |-> r.name,
                               problem |-> "environment does not include key: " \o k]>>
         IN  key("envVarDiscoveryInformation") \o key("envVarLogLevel")

\* validateSpartaPostconditions, lines 1295-1321: validateErrs after the loop
\* over the resources, visited in the order given
ValidateErrsFirstOnly(resources) ==
    LET deficient == SelectSeq(resources, LAMBDA r : ResourceErrs(r) # <<>>)
    IN  IF deficient = <<>> THEN <<>> ELSE <<ResourceErrs(deficient[1])[1]>>
RECURSIVE ValidateErrs(_)
ValidateErrs(resources) ==
    IF resources = <<>> THEN <<>>
    ELSE ResourceErrs(Head(resources)) \o ValidateErrs(Tail(resources))

\* The orders in which a range loop can visit the entries of a map
Orderings(S) ==
    {q \in [1..Cardinality(S) -> S] : \A i, j \in 1..Cardinality(S) : q[i] = q[j] => i = j}

\* validateSpartaPostconditions, lines 1287-1327. The error carries the list
\* validateErrs (line 1323)
ValidateSpartaPostconditions ==
    /\ pc = "loop" /\ step = "validateSpartaPostconditions"
    /\ stepLog' = Append(stepLog, step)
    /\ phases' = Append(phases, "validateSpartaPostconditions")
    /\ \E resources \in Orderings(cfTemplate) :
        LET validateErrs == ValidateErrs(resources)
            result == StepResult(step, IF Len(validateErrs) # 0
                                       THEN "Problems validating template contents"
                                       ELSE "nil")
        IN  ret' = [next |-> result.next, err |-> result.err, validateErrs |-> validateErrs]
    /\ pc' = "stepReturned"
    /\ UNCHANGED loopVars
    /\ UNCHANGED <<callStack, stepDurations, rollbackFunctions, finalizerFunctions, files,
                   s3objects, pool, s3CodeZipURL, siteUploadURL,
                   s3BucketVersioningEnabled, cfTemplate, changeSets, remoteCalls>>

\* ensureCloudFormationStack, lines 1338-1492: the sub-phases in source order
EnsureOrderSiteFirst ==
    <<"PreMarshall", "export", "S3Site", "APIGateway", "ServiceDecorator",
      "annotateDiscoveryInfo", "PostMarshall", "annotateMaterializedTemplate", "Validation">>
EnsureOrder ==
    <<"PreMarshall", "export", "APIGateway", "ServiceDecorator", "annotateDiscoveryInfo",
      "S3Site", "PostMarshall", "annotateMaterializedTemplate", "Validation">>

\* The sub-phases that run for the given inputs
EnsureRuns(u, p) ==
    CASE p \in {"PreMarshall", "ServiceDecorator", "PostMarshall", "Validation"} ->
              u.workflowHooks /\ u.hooks
      [] p \in {"export", "annotateDiscoveryInfo"} -> u.hasLambda
      [] p = "APIGateway" -> u.api
      [] p = "S3Site" -> u.s3Site
      [] OTHER -> TRUE

\* The effect of one sub-phase on the template
EnsureEffect(template, p) ==
    CASE p = "export" -> AddResource(template, Resource("Lambda", "AWS::Lambda::Function", {"envVarLogLevel"}))
      [] p = "APIGateway" -> AddResource(template, Resource("RestApi", "AWS::ApiGateway::RestApi", {}))
      [] p = "annotateDiscoveryInfo" ->
            {IF r.type = "AWS::Lambda::Function"
             THEN Resource(r.name, r.type, r.env \cup {"envVarDiscoveryInformation"}) ELSE r :
             r \in template}
      [] p = "S3Site" -> AddResource(template, Resource("S3Site", "AWS::S3::Bucket", {}))
      [] OTHER -> template

\* The template after the first n sub-phases
RECURSIVE EnsureTemplate(_, _, _)
EnsureTemplate(template, u, n) ==
    IF n = 0 THEN template
    ELSE LET before == EnsureTemplate(template, u, n - 1) IN
         IF EnsureRuns(u, EnsureOrder[n]) THEN EnsureEffect(before, EnsureOrder[n]) ELSE before

\* The name under which ensureCloudFormationStack records its duration, lines 1332-1336
EnsureMsgFixed(u) == "Ensuring CloudFormation stack"
EnsureMsg(u) ==
    IF u.inPlace THEN "Updating Lambda function code " ELSE "Ensuring CloudFormation stack"

\* ensureCloudFormationStack, lines 1330-1493: everything before the apply operation.
\* n is the sub-phase that fails; Len(EnsureOrder) + 1 is none
EnsureCloudFormationStack ==
    /\ pc = "loop" /\ step = "ensureCloudFormationStack"
    /\ stepLog' = Append(stepLog, step)
    /\ phases' = Append(phases, "ensureCloudFormationStack")
    /\ \E n \in 1..(Len(EnsureOrder) + 1) :
        /\ n <= Len(EnsureOrder) => EnsureRuns(userdata, EnsureOrder[n])
        /\ cfTemplate' = EnsureTemplate(cfTemplate, userdata, n - 1)
        /\ IF n <= Len(EnsureOrder)
           THEN /\ ret' = StepResult(step, EnsureOrder[n])
                /\ stepDurations' = Append(stepDurations, EnsureMsg(userdata))
                /\ callStack' = callStack
                /\ pc' = "stepReturned"
           ELSE /\ callStack' = <<"ensureCloudFormationStack">>
                /\ pc' = "apply"
                /\ UNCHANGED <<ret, stepDurations>>
    /\ UNCHANGED loopVars
    /\ UNCHANGED <<rollbackFunctions, finalizerFunctions, files, s3objects, pool,
                   s3CodeZipURL, siteUploadURL, s3BucketVersioningEnabled, changeSets,
                   remoteCalls>>

\* The return of applyCloudFormationOperation, which is the return of
\* ensureCloudFormationStack (line 1495), whose deferred recordDuration then runs
ApplyReturn(err) ==
    /\ ret' = StepResult(step, err)
    /\ stepDurations' = Append(stepDurations, EnsureMsg(userdata))
    /\ callStack' = <<>>
    /\ pc' = "stepReturned"

\* The test of line 1245
InPlaceModeNever(u) == FALSE
InPlaceMode(u) == u.inPlace

\* applyCloudFormationOperation, lines 1179-1280
ApplyCloudFormationOperation ==
    /\ pc = "apply"
    /\ phases' = Append(phases, "applyCloudFormationOperation")
    /\ \E f \in {"Marshal", "TemporaryFile", "Write", "Close", "templateWriter", "none"} :
        IF f # "none"
        THEN /\ files' = IF f \in {"Marshal", "TemporaryFile"} THEN files
                         ELSE files \cup {TemplateFile}
             /\ ApplyReturn(f)
             /\ UNCHANGED <<rollbackFunctions, finalizerFunctions, s3objects, remoteCalls>>
        ELSE IF userdata.codePipelineTrigger
        THEN \* lines 1271-1277
             /\ finalizerFunctions' = Register(finalizerFunctions, TemplateFile)
             /\ \E g \in {"TemporaryFile", "Create", "none"} :
                 /\ files' = files \cup {TemplateFile}
                                \cup (IF g = "TemporaryFile" THEN {} ELSE {PipelineZip})
                 /\ ApplyReturn(IF g = "none" THEN "nil" ELSE g)
             /\ UNCHANGED <<rollbackFunctions, s3objects, remoteCalls>>
        ELSE IF userdata.noop
        THEN \* lines 1230-1234
             /\ files' = files \cup {TemplateFile}
             /\ ApplyReturn("nil")
             /\ UNCHANGED <<rollbackFunctions, finalizerFunctions, s3objects, remoteCalls>>
        ELSE \* lines 1236-1263: upload the template from the controlling thread
             /\ files' = files \cup {TemplateFile}
             /\ finalizerFunctions' = Register(finalizerFunctions, TemplateFile)
             /\ \E up \in BOOLEAN :
                 IF ~up
                 THEN /\ remoteCalls' = Issue(remoteCalls, Call("Upload", TemplateFile, FALSE))
                      /\ ApplyReturn("Failed to upload local file to S3")
                      /\ UNCHANGED <<rollbackFunctions, s3objects>>
                 ELSE /\ rollbackFunctions' = Register(rollbackFunctions, TemplateFile)
                      /\ s3objects' = s3objects \cup {TemplateFile}
                      /\ IF InPlaceMode(userdata)
                         THEN /\ remoteCalls' = Issue(remoteCalls, Call("Upload", TemplateFile, TRUE))
                              /\ callStack' = <<"ensureCloudFormationStack",
                                                "applyCloudFormationOperation">>
                              /\ pc' = "inPlace"
                              /\ UNCHANGED <<ret, stepDurations>>
                         ELSE \E ok \in BOOLEAN :
                              /\ remoteCalls' = Issue(Issue(remoteCalls,
                                      Call("Upload", TemplateFile, TRUE)),
                                      Call("ConvergeStackState", "stack", ok))
                              /\ ApplyReturn(IF ok THEN "nil" ELSE "ConvergeStackState failed")
    /\ UNCHANGED loopVars
    /\ UNCHANGED <<stepLog, pool, s3CodeZipURL, siteUploadURL, s3BucketVersioningEnabled,
                   cfTemplate, changeSets>>

\* The change-sets CreateStackChangeSet can report: each change is a Modify of
\* a function resource ("ModifyFunction") or anything else ("Other")
ChangeSets == SeqsUpTo({"ModifyFunction", "Other"}, MaxChanges)

\* The change-set created under the name changeSetRequestName, lines 1088-1095
InPlaceChangeSet(changes) == [name |-> "InPlaceChangeSet", changes |-> changes]

\* lines 1102-1123: the entries of invalidInPlaceRequests, one per change that
\* is not a Modify of a function resource, in the order of the change-set
RECURSIVE InvalidInPlaceRequestsFrom(_, _)
InvalidInPlaceRequestsFrom(changes, i) ==
    IF i > Len(changes) THEN <<>>
    ELSE (IF changes[i] = "ModifyFunction" THEN <<>>
          ELSE <<changes[i] \o " for Resource" \o ToString(i)>>)
         \o InvalidInPlaceRequestsFrom(changes, i + 1)
InvalidInPlaceRequests(changes) == InvalidInPlaceRequestsFrom(changes, 1)

\* strings.Join(requests, sep), line 1125
RECURSIVE JoinWith(_, _)
JoinWith(requests, sep) ==
    IF requests = <<>> THEN ""
    ELSE IF Len(requests) = 1 THEN requests[1]
    ELSE requests[1] \o sep \o JoinWith(Tail(requests), sep)

\* The error of line 1125
UnsupportedError(requests) ==
    "unsupported in-place operations detected: " \o JoinWith(requests, ",")

UpdateTask(i) == "update" \o ToString(i)
DeleteChangeSetTask == "deleteChangeSet"

\* applyInPlaceFunctionUpdates, lines 1085-1158: up to the start of the pool
ApplyInPlaceBegin ==
    /\ pc = "inPlace"
    /\ \E created \in BOOLEAN :
        IF ~created
        THEN /\ remoteCalls' = Issue(remoteCalls, Call("CreateStackChangeSet", "stack", FALSE))
             /\ ApplyReturn("CreateStackChangeSet failed")
             /\ UNCHANGED <<changeSets, pool>>
        ELSE \E changes \in ChangeSets :
             /\ remoteCalls' = Issue(remoteCalls, Call("CreateStackChangeSet", "stack", TRUE))
             /\ changeSets' = changeSets \cup {InPlaceChangeSet(changes)}
             /\ IF Len(changes) = 0
                THEN /\ ApplyReturn("no changes detected")
                     /\ pool' = pool
                ELSE IF "ModifyFunction" \in Range(changes) /\ s3CodeZipURL = NilURL
                THEN \* line 1110: keyName() of a nil *s3UploadURL
                     /\ pc' = "panicked"
                     /\ stepDurations' = Append(stepDurations, EnsureMsg(userdata))
                     /\ UNCHANGED <<ret, callStack, pool>>
                ELSE IF InvalidInPlaceRequests(changes) # <<>>
                THEN /\ ApplyReturn(UnsupportedError(InvalidInPlaceRequests(changes)))
                     /\ pool' = pool
                ELSE /\ pool' = NewWorkerPool({UpdateTask(i) : i \in 1..Len(changes)}
                                                 \cup {DeleteChangeSetTask})
                     /\ pc' = "poolWait"
                     /\ UNCHANGED <<ret, stepDurations, callStack>>
    /\ UNCHANGED loopVars
    /\ UNCHANGED <<stepLog, phases, rollbackFunctions, finalizerFunctions, files, s3objects,
                   s3CodeZipURL, siteUploadURL, s3BucketVersioningEnabled, cfTemplate>>

\* updateTaskMaker / deleteChangeSetTask, lines 1135-1156: one remote call per task
InPlaceTask(t) ==
    /\ callStack # <<"createUploadStep">>
    /\ pool[t].pc = "start"
    /\ \E ok \in BOOLEAN :
        /\ remoteCalls' = Issue(remoteCalls,
              Call(IF t = DeleteChangeSetTask THEN "DeleteChangeSet" ELSE "UpdateFunctionCode",
                   t, ok))
        /\ changeSets' = IF t = DeleteChangeSetTask /\ ok THEN {} ELSE changeSets
        /\ pool' = IF ok THEN TaskAt(t, "done") ELSE TaskFailed(t, "remote call failed")
    /\ UNCHANGED taskFrame
    /\ UNCHANGED <<rollbackFunctions, finalizerFunctions, files, s3objects, s3CodeZipURL,
                   siteUploadURL>>

\* applyInPlaceFunctionUpdates, lines 1159-1173: Run returned; describe the stack
ApplyInPlaceJoin ==
    /\ pc = "poolWait" /\ callStack # <<"createUploadStep">>
    /\ PoolDone
    /\ pool' = <<>>
    /\ IF AggregateError(PoolErrors, "failed to update function code") # "nil"
       THEN /\ ApplyReturn("failed to update function code")
            /\ remoteCalls' = remoteCalls
       ELSE \E ok \in BOOLEAN :
            /\ remoteCalls' = Issue(remoteCalls, Call("DescribeStacks", "stack", ok))
            /\ ApplyReturn(IF ok THEN "nil" ELSE "DescribeStacks failed")
    /\ UNCHANGED loopVars
    /\ UNCHANGED <<stepLog, phases, rollbackFunctions, finalizerFunctions, files, s3objects,
                   s3CodeZipURL, siteUploadURL, s3BucketVersioningEnabled, cfTemplate,
                   changeSets>>

\* Provision, lines 1596-1621: what the loop does with (next, err)
LoopBranchNoRollback(r) ==
    IF r.err # "nil" THEN "errReturn"
    ELSE IF r.next = "nil" THEN "finalize" ELSE "loop"
LoopBranch(r) ==
    IF r.err # "nil" THEN "rollback"
    ELSE IF r.next = "nil" THEN "finalize" ELSE "loop"

LoopDispatch ==
    /\ pc = "stepReturned"
    /\ pc' = LoopBranch(ret)
    /\ step' = IF LoopBranch(ret) = "loop" THEN ret.next ELSE step
    /\ UNCHANGED <<userdata, bucket, roleVars, keyNames, validation, ret, stepLog, phases, callStack, stepDurations,
                   rollbackFunctions, finalizerFunctions, files, s3objects, pool,
                   s3CodeZipURL, siteUploadURL, s3BucketVersioningEnabled, cfTemplate,
                   changeSets, remoteCalls, rb, wg, rollbackCount, finalizersRun,
                   finIdx, retErr>>

\* callRollbackHook, lines 309-318: the handlers it starts
RollbackHooks(u) == IF u.workflowHooks THEN u.rollbackHooks ELSE 0

\* The concurrent units of rollback(): one per hook, one per rollback function
RollbackUnits(fns, u) ==
    {<<"hook", j>> : j \in 1..RollbackHooks(u)} \cup {<<"function", i>> : i \in 1..Len(fns)}

\* rollback(), line 269 and callRollbackHook, line 319: the WaitGroup counter
\* once every goroutine has been started
WaitGroupFunctionsOnly(nFunctions, nHooks) == nFunctions
WaitGroupAdds(nFunctions, nHooks) == nFunctions + nHooks

\* rollback(), lines 261-288: start one goroutine per hook and per rollback
\* function; each calls its handler once
RollbackBegin ==
    /\ pc = "rollback"
    /\ rollbackCount' = rollbackCount + 1
    /\ rb' = [x \in RollbackUnits(rollbackFunctions, userdata) |->
                 [state |-> "running", calls |-> 1]]
    /\ wg' = WaitGroupAdds(Len(rollbackFunctions), RollbackHooks(userdata))
    /\ pc' = "rollbackWait"
    /\ UNCHANGED <<userdata, bucket, roleVars, keyNames, validation, step, ret, stepLog, phases, callStack, stepDurations,
                   rollbackFunctions, finalizerFunctions, files, s3objects, pool,
                   s3CodeZipURL, siteUploadURL, s3BucketVersioningEnabled, cfTemplate,
                   changeSets, remoteCalls, finalizersRun, finIdx, retErr>>

\* Variables the rollback goroutines never touch
rollbackFrame == <<userdata, bucket, roleVars, keyNames, validation, pc, step, ret, stepLog, phases, callStack, stepDurations,
                   rollbackFunctions, finalizerFunctions, files, pool, s3CodeZipURL,
                   siteUploadURL, s3BucketVersioningEnabled, cfTemplate, changeSets,
                   rollbackCount, finalizersRun, finIdx, retErr>>

\* A rollback goroutine: its handler returns (success or failure, lines 281
\* and 322) and the deferred wg.Done() runs. The result of a hook is logged the
\* same way whether it is an error or nil (lines 327-329)
RollbackDone(x) ==
    /\ rb[x].state = "running"
    /\ \E ok \in BOOLEAN :
        /\ rb' = [rb EXCEPT ![x].state = IF x[1] = "hook" THEN "returned"
                                         ELSE IF ok THEN "succeeded" ELSE "failed"]
        /\ s3objects' = IF x[1] = "function" /\ ok
                        THEN s3objects \ {rollbackFunctions[x[2]]}
                        ELSE s3objects
    /\ wg' = wg - 1
    /\ UNCHANGED rollbackFrame
    /\ UNCHANGED remoteCalls

\* rollback(), line 289: wg.Wait() returns, then the deferred recordDuration
RollbackWait ==
    /\ pc = "rollbackWait"
    /\ wg = 0
    /\ stepDurations' = Append(stepDurations, "Rollback")
    /\ pc' = "errReturn"
    /\ UNCHANGED <<userdata, bucket, roleVars, keyNames, validation, step, ret, stepLog, phases, callStack, rollbackFunctions,
                   finalizerFunctions, files, s3objects, pool, s3CodeZipURL,
                   siteUploadURL, s3BucketVersioningEnabled, cfTemplate, changeSets,
                   remoteCalls, rb, wg, rollbackCount, finalizersRun, finIdx, retErr>>

\* Provision, line 1601: where control goes after rollback
RollbackExitContinue == "loop"
RollbackExit == "returned"

\* Provision, line 1601: return the wrapped error
ErrReturn ==
    /\ pc = "errReturn"
    /\ retErr' = WrapErr(ret.err, "Failed to provision service")
    /\ pc' = RollbackExit
    /\ UNCHANGED <<userdata, bucket, roleVars, keyNames, validation, step, ret, stepLog, phases, callStack, stepDurations,
                   rollbackFunctions, finalizerFunctions, files, s3objects, pool,
                   s3CodeZipURL, siteUploadURL, s3BucketVersioningEnabled, cfTemplate,
                   changeSets, remoteCalls, rb, wg, rollbackCount, finalizersRun, finIdx>>

\* Provision, line 1628: the finalizer the loop calls at index i
FinalizerAtReversed(fns, i) == fns[Len(fns) + 1 - i]
FinalizerAt(fns, i) == fns[i]

\* Provision, lines 1624-1631: call the next finalizer (os.Remove may fail)
Finalize ==
    /\ pc = "finalize"
    /\ finIdx <= Len(finalizerFunctions)
    /\ LET f == FinalizerAt(finalizerFunctions, finIdx) IN
        /\ finalizersRun' = Append(finalizersRun, f)
        /\ \E ok \in BOOLEAN :
            /\ ok => f \in files
            /\ files' = IF ok THEN files \ {f} ELSE files
    /\ finIdx' = finIdx + 1
    /\ UNCHANGED <<userdata, bucket, roleVars, keyNames, validation, pc, step, ret, stepLog, phases, callStack, stepDurations,
                   rollbackFunctions, finalizerFunctions, s3objects, pool, s3CodeZipURL,
                   siteUploadURL, s3BucketVersioningEnabled, cfTemplate, changeSets,
                   remoteCalls, rb, wg, rollbackCount, retErr>>

\* Provision, line 1632
ProvisionReturn ==
    /\ pc = "finalize"
    /\ finIdx > Len(finalizerFunctions)
    /\ retErr' = "nil"
    /\ pc' = "returned"
    /\ UNCHANGED <<userdata, bucket, roleVars, keyNames, validation, step, ret, stepLog, phases, callStack, stepDurations,
                   rollbackFunctions, finalizerFunctions, files, s3objects, pool,
                   s3CodeZipURL, siteUploadURL, s3BucketVersioningEnabled, cfTemplate,
                   changeSets, remoteCalls, rb, wg, rollbackCount, finalizersRun, finIdx>>

UploadTask == \E t \in DOMAIN pool :
    \/ UploadTaskStart(t)
    \/ TaskFinalizerRead(t)
    \/ TaskFinalizerWrite(t)
    \/ TaskUpload(t)
    \/ TaskRollbackRead(t)
    \/ TaskRollbackWrite(t)

UpdateTasks == \E t \in DOMAIN pool : InPlaceTask(t)

RollbackGoroutine == \E x \in DOMAIN rb : RollbackDone(x)

Next ==
    \/ ProvisionEnter
    \/ VerifyIAMRoles
    \/ VerifyAWSPreconditions
    \/ CreatePackageStep
    \/ CreateUploadBegin
    \/ UploadTask
    \/ CreateUploadJoin
    \/ ValidateSpartaPostconditions
    \/ EnsureCloudFormationStack
    \/ ApplyCloudFormationOperation
    \/ ApplyInPlaceBegin
    \/ UpdateTasks
    \/ ApplyInPlaceJoin
    \/ LoopDispatch
    \/ RollbackBegin
    \/ RollbackGoroutine
    \/ RollbackWait
    \/ ErrReturn
    \/ Finalize
    \/ ProvisionReturn

Spec == Init /\ [][Next]_vars

(***************************************************************************)
(* Role resolution on its own: verifyIAMRoles applied to every function    *)
(* list with at most MaxRoleRefs role references, once or twice on the     *)
(* same context.                                                           *)
(***************************************************************************)

RolesUserData(n) ==
    {[noop |-> FALSE, inPlace |-> FALSE, codePipelineTrigger |-> FALSE,
      hasLambda |-> infos # <<>>, lambdaAWSInfos |-> infos, s3Site |-> FALSE,
      api |-> FALSE, precondOK |-> TRUE, workflowHooks |-> TRUE, hooks |-> TRUE,
      rollbackHooks |-> 0] : infos \in LambdaAWSInfos(n)}

RolesInit ==
    /\ userdata \in RolesUserData(MaxRoleRefs)
    /\ bucket = VersionedBucket
    /\ keyNames = NoKeyNames
    /\ validation = NoValidation
    /\ InitContext

\* A caller invokes verifyIAMRoles(ctx) a second time on the same context
VerifyIAMRolesAgain ==
    /\ pc = "stepReturned" /\ step = "verifyIAMRoles"
    /\ ret.err = "nil"
    /\ Len(stepLog) = 1
    /\ pc' = "loop"
    /\ UNCHANGED <<userdata, bucket, roleVars, keyNames, validation, step, ret, stepLog, phases, callStack, stepDurations,
                   rollbackFunctions, finalizerFunctions, files, s3objects, pool,
                   s3CodeZipURL, siteUploadURL, s3BucketVersioningEnabled, cfTemplate,
                   changeSets, remoteCalls, rb, wg, rollbackCount, finalizersRun,
                   finIdx, retErr>>

RolesNext ==
    \/ ProvisionEnter
    \/ VerifyIAMRoles
    \/ VerifyIAMRolesAgain

RolesSpec == RolesInit /\ [][RolesNext]_vars

\* ---------------------------------------------------------------------------
\* versionAwareS3KeyName on its own: a default key and the versioning state of
\* the bucket are given, and the function is called at several clock readings

KeyInit ==
    /\ userdata \in RolesUserData(0)
    /\ bucket = VersionedBucket
    /\ keyNames \in {[s3DefaultKey |-> key, s3VersioningEnabled |-> enabled, calls |-> <<>>] :
                        key \in Keys, enabled \in BOOLEAN}
    /\ validation = NoValidation
    /\ InitContext

\* One call of versionAwareS3KeyName, lines 500-525, at the clock reading now
CallVersionAwareS3KeyName ==
    /\ Len(keyNames.calls) < MaxKeyCalls
    /\ \E now \in Times :
        keyNames' = [keyNames EXCEPT !.calls = Append(@,
            [now |-> now,
             versionKeyName |-> VersionAwareS3KeyName(keyNames.s3DefaultKey,
                                                      keyNames.s3VersioningEnabled, now)])]
    /\ UNCHANGED <<userdata, bucket, roleVars, validation, pc, step, ret, stepLog, phases, callStack,
                   stepDurations, rollbackFunctions, finalizerFunctions, files, s3objects,
                   pool, s3CodeZipURL, siteUploadURL, s3BucketVersioningEnabled, cfTemplate,
                   changeSets, remoteCalls, rb, wg, rollbackCount, finalizersRun,
                   finIdx, retErr>>

KeyNext == CallVersionAwareS3KeyName

KeySpec == KeyInit /\ [][KeyNext]_vars

\* ---------------------------------------------------------------------------
\* callValidationHooks on its own: the template ensureCloudFormationStack has
\* built is handed to a list of validation handlers, each of which may change
\* the template it is given and may fail

MaxValidators == 2

\* What a handler does to the template it receives: "none", "add" or "clear"
HookEffect(template, mutation) ==
    CASE mutation = "add" -> AddResource(template, Resource("Injected", "AWS::SNS::Topic", {}))
      [] mutation = "clear" -> {}
      [] OTHER -> template

\* workflowHooks.Validators
Validators ==
    SeqsUpTo([mutation : {"none", "add", "clear"}, fails : BOOLEAN], MaxValidators)

\* json.Marshal of a template (line 460): an object keyed by logical name;
\* json.Unmarshal (line 475) builds a template from such an object
Marshal(template) ==
    [n \in {r.name : r \in template} |->
        LET r == CHOOSE x \in template : x.name = n
        IN  [Type |-> r.type, Environment |-> r.env]]
Unmarshal(json) == {Resource(n, json[n].Type, json[n].Environment) : n \in DOMAIN json}

\* Lines 474-475: the template of one iteration is a fresh value filled from
\* the marshaled bytes; calls are the iterations before it
LoopTemplateReused(marshaledTemplate, calls) ==
    IF calls = <<>> THEN Unmarshal(marshaledTemplate) ELSE calls[Len(calls)].left
LoopTemplate(marshaledTemplate, calls) == Unmarshal(marshaledTemplate)

\* ensureCloudFormationStack has reached line 1484
ValidationInit ==
    /\ userdata \in {u \in UserData : /\ u.workflowHooks /\ u.hooks /\ u.precondOK
                                      /\ ~u.noop /\ ~u.inPlace /\ ~u.codePipelineTrigger
                                      /\ u.rollbackHooks = 0}
    /\ bucket = VersionedBucket
    /\ keyNames = NoKeyNames
    /\ validation \in {[NoValidation EXCEPT !.validators = v] : v \in Validators}
    /\ pc = "callValidationHooks"
    /\ step = "ensureCloudFormationStack"
    /\ ret = [next |-> "nil", err |-> "nil"]
    /\ stepLog = <<>>
    /\ phases = <<>>
    /\ callStack = <<"ensureCloudFormationStack">>
    /\ stepDurations = <<>>
    /\ rollbackFunctions = <<>>
    /\ finalizerFunctions = <<>>
    /\ files = {}
    /\ s3objects = {}
    /\ pool = <<>>
    /\ s3CodeZipURL = NilURL
    /\ siteUploadURL = NilURL
    /\ s3BucketVersioningEnabled = FALSE
    /\ cfTemplate = EnsureTemplate({}, userdata, Len(EnsureOrder) - 1)
    /\ changeSets = {}
    /\ remoteCalls = EmptyBag
    /\ rb = <<>>
    /\ wg = 0
    /\ rollbackCount = 0
    /\ finalizersRun = <<>>
    /\ finIdx = 1
    /\ retErr = "none"
    /\ lambdaIAMRoleNameMap = EmptyMap
    /\ addResourceCalls = <<>>
    /\ getRoleCalls = <<>>

\* What callValidationHooks leaves alone
validationFrame == <<userdata, bucket, roleVars, keyNames, step, stepLog, phases, callStack,
                     stepDurations, rollbackFunctions, finalizerFunctions, files, s3objects,
                     pool, s3CodeZipURL, siteUploadURL, s3BucketVersioningEnabled,
                     cfTemplate, changeSets, remoteCalls, rb, wg, rollbackCount,
                     finalizersRun, finIdx, retErr>>

\* callValidationHooks, lines 458-465: marshal the template once if there is a handler
CallValidationHooks ==
    /\ pc = "callValidationHooks"
    /\ \E ok \in BOOLEAN :
        IF Len(validation.validators) # 0 /\ ~ok
        THEN /\ ret' = [next |-> "nil", err |-> "Failed to marshal template for validation"]
             /\ pc' = "validationReturned"
             /\ UNCHANGED validation
        ELSE /\ validation' = [validation EXCEPT !.marshaledTemplate =
                                  IF Len(validation.validators) # 0
                                  THEN Marshal(cfTemplate) ELSE <<>>]
             /\ pc' = "validationLoop"
             /\ UNCHANGED ret
    /\ UNCHANGED validationFrame

\* callValidationHooks, lines 467-492: one iteration of the loop
ValidationHook ==
    /\ pc = "validationLoop"
    /\ Len(validation.calls) < Len(validation.validators)
    /\ LET i == Len(validation.calls) + 1
           hook == validation.validators[i]
           loopTemplate == LoopTemplate(validation.marshaledTemplate, validation.calls)
       IN  \E unmarshalOK \in BOOLEAN :
            IF ~unmarshalOK
            THEN /\ ret' = [next |-> "nil",
                            err |-> "Failed to unmarshal read-only copy of template for Validation"]
                 /\ pc' = "validationReturned"
                 /\ UNCHANGED validation
            ELSE /\ validation' = [validation EXCEPT !.calls = Append(@,
                        [hook |-> i, template |-> loopTemplate,
                         left |-> HookEffect(loopTemplate, hook.mutation)])]
                 /\ IF hook.fails
                    THEN /\ ret' = [next |-> "nil", err |-> "Service failed to pass validation"]
                         /\ pc' = "validationReturned"
                    ELSE UNCHANGED <<ret, pc>>
    /\ UNCHANGED validationFrame

\* callValidationHooks, line 494: every handler has passed
ValidationReturn ==
    /\ pc = "validationLoop"
    /\ Len(validation.calls) = Len(validation.validators)
    /\ pc' = "validationReturned"
    /\ UNCHANGED ret
    /\ UNCHANGED <<validation, validationFrame>>

ValidationNext ==
    \/ CallValidationHooks
    \/ ValidationHook
    \/ ValidationReturn

ValidationSpec == ValidationInit /\ [][ValidationNext]_vars

\* ---------------------------------------------------------------------------
\* The convergence branch of applyCloudFormationOperation on its own: the
\* operation timeout is computed from the template and handed to
\* ConvergeStackState

MaxResources == 3

\* maximumStackOperationTimeout, lines 991-1005, in minutes: the loop over the
\* resources, which stops at the first distribution
RECURSIVE TimeoutLoop(_, _)
TimeoutLoop(resources, stackOperationTimeout) ==
    IF resources = {} THEN stackOperationTimeout
    ELSE LET eachResource == CHOOSE r \in resources : TRUE IN
         IF eachResource.type = "AWS::CloudFront::Distribution" THEN 60
         ELSE TimeoutLoop(resources \ {eachResource}, stackOperationTimeout)

MaximumStackOperationTimeoutDefault(template) == 20
MaximumStackOperationTimeout(template) == TimeoutLoop(template, 20)

\* applyCloudFormationOperation has reached line 1248 with a template of up to
\* MaxResources resources
TimeoutInit ==
    /\ userdata \in {u \in UserData : /\ u.workflowHooks /\ u.hooks /\ u.precondOK
                                      /\ ~u.noop /\ ~u.inPlace /\ ~u.codePipelineTrigger
                                      /\ u.rollbackHooks = 0 /\ ~u.hasLambda
                                      /\ ~u.s3Site /\ ~u.api}
    /\ bucket = VersionedBucket
    /\ keyNames = NoKeyNames
    /\ validation = NoValidation
    /\ pc = "converge"
    /\ step = "ensureCloudFormationStack"
    /\ ret = [next |-> "nil", err |-> "nil"]
    /\ stepLog = <<>>
    /\ phases = <<>>
    /\ callStack = <<"ensureCloudFormationStack", "applyCloudFormationOperation">>
    /\ stepDurations = <<>>
    /\ rollbackFunctions = <<>>
    /\ finalizerFunctions = <<>>
    /\ files = {}
    /\ s3objects = {}
    /\ pool = <<>>
    /\ s3CodeZipURL = NilURL
    /\ siteUploadURL = NilURL
    /\ s3BucketVersioningEnabled = FALSE
    /\ cfTemplate \in {t \in SUBSET {Resource(ToString(n), type, {}) :
                                        n \in 1..MaxResources,
                                        type \in {"AWS::Lambda::Function", "AWS::S3::Bucket",
                                                  "AWS::CloudFront::Distribution"}} :
                          \A x, y \in t : x.name = y.name => x = y}
    /\ changeSets = {}
    /\ remoteCalls = EmptyBag
    /\ rb = <<>>
    /\ wg = 0
    /\ rollbackCount = 0
    /\ finalizersRun = <<>>
    /\ finIdx = 1
    /\ retErr = "none"
    /\ lambdaIAMRoleNameMap = EmptyMap
    /\ addResourceCalls = <<>>
    /\ getRoleCalls = <<>>

\* applyCloudFormationOperation, lines 1248-1263: the call's argument is the
\* operation timeout
ConvergeStackState ==
    /\ pc = "converge"
    /\ \E ok \in BOOLEAN :
        /\ remoteCalls' = Issue(remoteCalls,
              Call("ConvergeStackState", MaximumStackOperationTimeout(cfTemplate), ok))
        /\ ret' = StepResult(step, IF ok THEN "nil" ELSE "ConvergeStackState failed")
    /\ pc' = "stepReturned"
    /\ UNCHANGED <<userdata, bucket, roleVars, keyNames, validation, step, stepLog, phases,
                   callStack, stepDurations, rollbackFunctions, finalizerFunctions, files,
                   s3objects, pool, s3CodeZipURL, siteUploadURL, s3BucketVersioningEnabled,
                   cfTemplate, changeSets, rb, wg, rollbackCount, finalizersRun, finIdx,
                   retErr>>

TimeoutSpec == TimeoutInit /\ [][ConvergeStackState]_vars

\* ---------------------------------------------------------------------------
\* validateSpartaPostconditions on its own: the step is invoked on a template
\* of up to MaxResources resources, the functions among them with no
\* environment, with unreadable variables or with any of the required ones

PostconditionsInit ==
    /\ userdata \in {u \in UserData : /\ u.workflowHooks /\ u.hooks /\ u.precondOK
                                      /\ ~u.noop /\ ~u.inPlace /\ ~u.codePipelineTrigger
                                      /\ u.rollbackHooks = 0 /\ ~u.hasLambda
                                      /\ ~u.s3Site /\ ~u.api}
    /\ bucket = VersionedBucket
    /\ keyNames = NoKeyNames
    /\ validation = NoValidation
    /\ pc = "loop"
    /\ step = "validateSpartaPostconditions"
    /\ ret = [next |-> "validateSpartaPostconditions", err |-> "nil"]
    /\ stepLog = <<"verifyIAMRoles", "verifyAWSPreconditions", "createPackageStep",
                   "createUploadStep">>
    /\ phases = stepLog
    /\ callStack = <<>>
    /\ stepDurations = <<"Verifying IAM roles", "Verifying AWS preconditions",
                         "Creating code bundle", "Uploading code">>
    /\ rollbackFunctions = <<>>
    /\ finalizerFunctions = <<>>
    /\ files = {CodeZip}
    /\ s3objects = {}
    /\ pool = <<>>
    /\ s3CodeZipURL = NilURL
    /\ siteUploadURL = NilURL
    /\ s3BucketVersioningEnabled = TRUE
    /\ cfTemplate \in
         {t \in SUBSET ({Resource(ToString(n), "AWS::Lambda::Function", env) :
                            n \in 1..MaxResources,
                            env \in {NilEnvironment, UnsupportedVariables}
                                       \cup SUBSET RequiredEnvVars}
                        \cup {Resource(ToString(n), "AWS::S3::Bucket", {}) :
                                 n \in 1..MaxResources}) :
             /\ Cardinality(t) <= MaxResources
             /\ \A x, y \in t : x.name = y.name => x = y}
    /\ changeSets = {}
    /\ remoteCalls = EmptyBag
    /\ rb = <<>>
    /\ wg = 0
    /\ rollbackCount = 0
    /\ finalizersRun = <<>>
    /\ finIdx = 1
    /\ retErr = "none"
    /\ lambdaIAMRoleNameMap = EmptyMap
    /\ addResourceCalls = <<>>
    /\ getRoleCalls = <<>>

PostconditionsSpec == PostconditionsInit /\ [][ValidateSpartaPostconditions]_vars

(***************************************************************************)
(* Properties                                                              *)
(***************************************************************************)

IsPrefix(a, b) == Len(a) <= Len(b) /\ a = SubSeq(b, 1, Len(a))

\* The canonical sequence of phases
CanonicalPhases ==
    <<"verifyIAMRoles", "verifyAWSPreconditions", "createPackageStep", "createUploadStep",
      "validateSpartaPostconditions", "ensureCloudFormationStack",
      "applyCloudFormationOperation">>

\* Provision returned the error of a failed step
FailedRun == pc = "returned" /\ ret.err # "nil"

\* The last step call produced the terminal result (nil, nil)
TerminalResult ==
    /\ pc \in {"stepReturned", "finalize", "returned"}
    /\ stepLog # <<>>
    /\ ret.next = "nil" /\ ret.err = "nil"

\* The uploads that succeeded
Uploaded == {c.arg : c \in {d \in BagToSet(remoteCalls) : d.call = "Upload" /\ d.ok}}

\* The rollback goroutine of the undo action of upload o has returned
UndoReturned(o) ==
    \E i \in 1..Len(rollbackFunctions) :
        /\ rollbackFunctions[i] = o
        /\ <<"function", i>> \in DOMAIN rb
        /\ rb[<<"function", i>>].state \in {"succeeded", "failed"}

\* C1: once a step has returned an error, no further step is invoked and no
\* further phase begins in that run.
C1_NoStepAfterFailure ==
    [][ret.err # "nil" => (stepLog' = stepLog /\ phases' = phases)]_vars

\* A run that failed in its second step and returned without running the rest
C1_Witness ==
    /\ FailedRun
    /\ stepLog = <<"verifyIAMRoles", "verifyAWSPreconditions">>

\* C2 (as stated): in every run that entered the step loop, every registered
\* finalizer has been executed exactly once when Provision returns, on the
\* failure path as on the success path.
C2_FinalizersOnEveryPath ==
    (pc = "returned" /\ stepLog # <<>>) => finalizersRun = finalizerFunctions

\* C3: rollback() is called exactly once in a run in which a step returned an
\* error, and never in a run whose step chain completed.
C3_RollbackOnlyOnError ==
    /\ rollbackCount <= 1
    /\ ret.err = "nil" => rollbackCount = 0
    /\ (ret.err # "nil" /\ pc \in {"errReturn", "returned"}) => rollbackCount = 1

\* A failed run with registered undo actions whose rollback ran once
C3_Witness ==
    /\ FailedRun
    /\ rollbackCount = 1
    /\ rollbackFunctions # <<>>

\* C4 (as stated): when Provision returns a step's error, the undo action of
\* every upload that succeeded has been invoked and has returned.
C4_UndoOfEveryUpload ==
    FailedRun => \A o \in Uploaded : UndoReturned(o)

\* C5 (as stated): when Provision returns, no temporary artifact created for
\* upload (code archive, site archive, template file) is left.
C5_TemporaryFilesRemoved ==
    pc = "returned" => files \cap {CodeZip, SiteZip, TemplateFile} = {}

\* C6: rollback() starts one concurrent unit per registered rollback function
\* and per rollback hook, each calling its handler exactly once, and returns
\* only when every unit has completed, whether or not some of them failed.
C6_RollbackWaitsForAll ==
    /\ \A x \in DOMAIN rb : rb[x].calls <= 1
    /\ (rollbackCount = 1) =>
          /\ DOMAIN rb = RollbackUnits(rollbackFunctions, userdata)
          /\ \A x \in DOMAIN rb : rb[x].calls = 1
    /\ (rollbackCount = 1 /\ pc \in {"errReturn", "returned"}) =>
          \A x \in DOMAIN rb : rb[x].state # "running"

\* rollback() is waiting; one undo action has failed while another undo
\* action and a hook are still running
C6_Witness ==
    /\ pc = "rollbackWait"
    /\ \E x, y, z \in DOMAIN rb :
        /\ x[1] = "function" /\ rb[x].state = "failed"
        /\ y[1] = "function" /\ rb[y].state = "running"
        /\ z[1] = "hook" /\ rb[z].state = "running"

\* C7: finalizers are called one at a time in the order of the finalizer
\* list (registration order), and none before the step loop has exited.
C7_FinalizersInOrder ==
    /\ IsPrefix(finalizersRun, finalizerFunctions)
    /\ Len(finalizersRun) = finIdx - 1
    /\ finalizersRun # <<>> => pc \in {"finalize", "returned"}

\* A completed run that executed three finalizers
C7_Witness ==
    /\ pc = "returned"
    /\ Len(finalizersRun) = 3

C9_PhaseAfterPreviousReturned ==
    [][phases' # phases => (IsPrefix(phases', CanonicalPhases) /\ callStack = <<>>)]_vars

\* C9 (amended): phases begin in canonical order, each at most once, and a
\* successful run begins all of them; every phase begins when all earlier
\* ones have returned, except the apply operation, which begins inside
\* ensureCloudFormationStack once that step's own sub-phases are done.
C9_PhaseOrder ==
    /\ [][phases' # phases =>
            /\ IsPrefix(phases', CanonicalPhases)
            /\ Len(phases') = Len(phases) + 1
            /\ IF phases'[Len(phases')] = "applyCloudFormationOperation"
               THEN callStack = <<"ensureCloudFormationStack">> /\ pc = "apply"
               ELSE callStack = <<>> /\ pc = "loop"]_vars
    /\ [](TerminalResult => phases = CanonicalPhases)

\* A successful full-convergence run that went through all seven phases
C9_Witness ==
    /\ pc = "returned"
    /\ retErr = "nil"
    /\ phases = CanonicalPhases
    /\ ~userdata.inPlace /\ ~userdata.noop /\ ~userdata.codePipelineTrigger

C11_LoopNeedsFunctionOrHook ==
    (~userdata.hasLambda /\ ~userdata.hooks) =>
        /\ stepLog = <<>>
        /\ pc \in {"Provision", "returned"}
        /\ pc = "returned" => retErr # "nil"

\* The role references of the input, and the names they use
AllRoleRefs ==
    UNION {{[roleName |-> f.RoleName, roleDefinition |-> f.RoleDefinition]}
              \cup Range(f.customResources) : f \in Range(userdata.lambdaAWSInfos)}
ReferencedRoleNames == {r.roleName : r \in AllRoleRefs} \ {""}
ReferencedDefinitions == {r.roleDefinition : r \in AllRoleRefs} \ {"nil"}

\* How often a role name was looked up, and a logical name registered
Lookups(roleName) ==
    Cardinality({i \in DOMAIN getRoleCalls : getRoleCalls[i].arg = roleName})
Registrations(logicalName) ==
    Cardinality({i \in DOMAIN addResourceCalls : addResourceCalls[i] = logicalName})

\* verifyIAMRoles has returned from its k-th invocation
RolesResolved(k) ==
    pc = "stepReturned" /\ step = "verifyIAMRoles" /\ Len(stepLog) = k

\* C12: within one invocation of verifyIAMRoles no role name is looked up and
\* no inline definition is registered more than once; when the step succeeds,
\* every distinct literal role name has been looked up exactly once and every
\* distinct inline definition has been registered exactly once.
C12_RolesResolvedOnce ==
    RolesResolved(1) =>
        /\ \A n \in RoleNames : Lookups(n) <= 1
        /\ \A l \in LogicalNames : Registrations(l) <= 1
        /\ ret.err = "nil" =>
              /\ \A n \in RoleNames : Lookups(n) = IF n \in ReferencedRoleNames THEN 1 ELSE 0
              /\ \A l \in LogicalNames :
                    Registrations(l) = IF l \in ReferencedDefinitions THEN 1 ELSE 0

\* A successful resolution in which three references share one role name
\* and another function holds an inline definition
C12_Witness ==
    /\ RolesResolved(1) /\ ret.err = "nil"
    /\ Len(userdata.lambdaAWSInfos) = 1
    /\ userdata.lambdaAWSInfos[1].RoleName = "r1"
    /\ userdata.lambdaAWSInfos[1].RoleDefinition = "L1"
    /\ Len(userdata.lambdaAWSInfos[1].customResources) = 2
    /\ \A c \in Range(userdata.lambdaAWSInfos[1].customResources) :
          c.roleName = "r1" /\ c.roleDefinition = "L1"

\* C13 (as stated): after verifyIAMRoles has succeeded twice on the same
\* context, both invocations together have issued exactly one lookup per
\* distinct literal role name and registered exactly one resource per
\* distinct inline definition.
C13_ResolvingTwiceIsIdempotent ==
    (RolesResolved(2) /\ ret.err = "nil") =>
        /\ \A n \in ReferencedRoleNames : Lookups(n) = 1
        /\ \A l \in ReferencedDefinitions : Registrations(l) = 1

\* C14: after verifyIAMRoles has succeeded, the role map has exactly the
\* distinct literal role names and the distinct logical names of the inline
\* definitions as its keys; a literal name maps to the Arn its lookup
\* returned, an inline definition to GetAtt(<logical name>, "Arn") of a
\* resource of the template.
C14_RoleMapComplete ==
    (pc = "stepReturned" /\ step = "verifyIAMRoles" /\ ret.err = "nil") =>
        /\ DOMAIN lambdaIAMRoleNameMap = ReferencedRoleNames \cup ReferencedDefinitions
        /\ \A n \in ReferencedRoleNames :
              /\ lambdaIAMRoleNameMap[n] = String(RoleArn(n))
              /\ \E i \in DOMAIN getRoleCalls :
                    getRoleCalls[i].arg = n /\ getRoleCalls[i].ok
        /\ \A l \in ReferencedDefinitions :
              /\ lambdaIAMRoleNameMap[l] = GetAtt(l, "Arn")
              /\ \E r \in cfTemplate : r.name = l /\ r.type = "AWS::IAM::Role"

\* A successful resolution with two literal names and two inline definitions,
\* some of them on custom resources
C14_Witness ==
    /\ RolesResolved(1) /\ ret.err = "nil"
    /\ ReferencedRoleNames = RoleNames
    /\ ReferencedDefinitions = LogicalNames
    /\ \E f \in Range(userdata.lambdaAWSInfos) : f.customResources # <<>>

\* C15: once a GetRole call has failed, no further GetRole call is issued, no
\* step other than verifyIAMRoles has run, nothing has been built or
\* uploaded, and Provision returns an error.
C15_RoleLookupFailureAborts ==
    \A i \in DOMAIN getRoleCalls :
        ~getRoleCalls[i].ok =>
            /\ i = Len(getRoleCalls)
            /\ ret.err # "nil"
            /\ stepLog = <<"verifyIAMRoles">>
            /\ phases = <<"verifyIAMRoles">>
            /\ files = {}
            /\ Uploaded = {}
            /\ pc \in {"stepReturned", "rollback", "rollbackWait", "errReturn", "returned"}
            /\ pc = "returned" => retErr = WrapErr(ret.err, "Failed to provision service")

\* Provision has returned after the lookup of the first of two role names failed
C15_Witness ==
    /\ pc = "returned"
    /\ getRoleCalls = <<Call("GetRole", "r1", FALSE)>>
    /\ "r2" \in ReferencedRoleNames

\* ---------------------------------------------------------------------------
\* The object-key naming policy

\* C16: when the bucket has versioning enabled the naming policy returns the
\* default key unchanged, at every clock reading.
C16_VersionedKeyIsDefaultKey ==
    keyNames.s3VersioningEnabled =>
        \A i \in 1..Len(keyNames.calls) :
            keyNames.calls[i].versionKeyName = keyNames.s3DefaultKey

C16_Witness ==
    /\ keyNames.s3VersioningEnabled
    /\ Len(keyNames.calls) = 2
    /\ keyNames.calls[1].now # keyNames.calls[2].now
    /\ Ext(keyNames.s3DefaultKey) # <<>>

\* C17: when versioning is disabled the key returned is the default key without
\* its extension, "-", a hash, and the extension; the hash is a function of the
\* default key and the clock reading only; two calls at different clock
\* readings return different keys, and no call returns the default key.
C17_UnversionedKeyIsSalted ==
    ~keyNames.s3VersioningEnabled =>
        LET key == keyNames.s3DefaultKey
            calls == keyNames.calls
        IN  \A i \in 1..Len(calls) :
                /\ \E prefix \in Keys, extension \in Keys :
                    /\ prefix \o extension = key
                    /\ extension = <<>> \/ Head(extension) = "."
                    /\ \A k \in 2..Len(extension) : extension[k] \notin {".", "/"}
                    /\ extension = <<>> => \A k \in 1..Len(key) :
                                                key[k] = "." => \E j \in k..Len(key) : key[j] = "/"
                    /\ Len(calls[i].versionKeyName) = Len(key) + 2
                    /\ SubSeq(calls[i].versionKeyName, 1, Len(prefix)) = prefix
                    /\ calls[i].versionKeyName[Len(prefix) + 1] = "-"
                    /\ SubSeq(calls[i].versionKeyName, Len(prefix) + 3, Len(key) + 2) = extension
                /\ calls[i].versionKeyName # key
                /\ \A j \in 1..Len(calls) :
                    LET hash(c) == c.versionKeyName[Len(key) - Len(Ext(key)) + 2]
                    IN  /\ calls[i].now # calls[j].now
                            => calls[i].versionKeyName # calls[j].versionKeyName
                        /\ calls[i].now = calls[j].now => hash(calls[i]) = hash(calls[j])

C17_Witness ==
    /\ ~keyNames.s3VersioningEnabled
    /\ Len(keyNames.calls) = 2
    /\ keyNames.calls[1].now # keyNames.calls[2].now
    /\ keyNames.s3DefaultKey = <<"a", ".", "a">>

\* ---------------------------------------------------------------------------
\* Dry-run mode

\* The remote calls that change remote state
MutatingCalls ==
    {"Upload", "CreateStackChangeSet", "UpdateFunctionCode", "DeleteChangeSet",
     "ConvergeStackState"}

\* The upload task of t has completed without an error
UploadTaskCompleted(t) ==
    \/ /\ callStack = <<"createUploadStep">>
       /\ t \in DOMAIN pool
       /\ pool[t].pc = "done" /\ pool[t].err = "nil"
    \/ /\ "validateSpartaPostconditions" \in Range(stepLog)
       /\ t \in UploadTasks(userdata)

\* url is the parsed synthetic location of the salted key of t in the bucket
SyntheticSaltedURL(url, t) ==
    LET default == DefaultS3KeyName(t)
        n == Len(default)
    IN  /\ url.location = <<"https://", "s3Bucket-s3.amazonaws.com", "/">> \o url.path
        /\ Len(url.path) = n + 2
        /\ SubSeq(url.path, 1, n - 2) = SubSeq(default, 1, n - 2)
        /\ url.path[n - 1] = "-"
        /\ \E now \in Times : url.path[n] = Sha1Hex(Join(default) \o "-" \o ToString(now))
        /\ SubSeq(url.path, n + 1, n + 2) = SubSeq(default, n - 1, n)

\* C18: in dry-run mode no remote mutating call is issued (no upload, no
\* change-set creation or deletion, no function-code update, no stack
\* convergence), nothing is stored in the bucket, no rollback action is
\* registered, and every completed upload has stored the synthetic location URL
\* built from the bucket and the salted key.
C18_DryRunMutatesNothing ==
    userdata.noop =>
        /\ \A c \in BagToSet(remoteCalls) : c.call \notin MutatingCalls
        /\ s3objects = {} /\ changeSets = {}
        /\ rollbackFunctions = <<>>
        /\ ~s3BucketVersioningEnabled
        /\ UploadTaskCompleted(CodeZip) => SyntheticSaltedURL(s3CodeZipURL, CodeZip)
        /\ UploadTaskCompleted(SiteZip) => SyntheticSaltedURL(siteUploadURL, SiteZip)

C18_Witness ==
    /\ userdata.noop
    /\ retErr = "nil"
    /\ UploadTaskCompleted(CodeZip) /\ UploadTaskCompleted(SiteZip)
    /\ "applyCloudFormationOperation" \in Range(phases)

\* ---------------------------------------------------------------------------
\* The preconditions on the destination bucket

\* verifyAWSPreconditions has returned to the step loop
PreconditionsReturned ==
    pc = "stepReturned" /\ step = "verifyAWSPreconditions"

BucketCallMade(name, ok) == Call(name, "bucket", ok) \in BagToSet(remoteCalls)

\* C19 (as stated): in a run that is not a dry run, if the bucket's region
\* differs from the session's region, verify-preconditions fails with the
\* region-mismatch error and create-package never begins.
C19_RegionMismatchFailsPreconditions ==
    (~userdata.noop /\ bucket.region # SessionRegion) =>
        /\ "createPackageStep" \notin Range(phases)
        /\ PreconditionsReturned => ret.err = RegionMismatchError

\* C19 (amended): in a run that is not a dry run and has at least one function,
\* if the bucket's region differs from the session's region, create-package
\* never begins and verify-preconditions fails; it fails with the
\* region-mismatch error exactly when its versioning check and its region
\* lookup did not fail first.
C19_RegionMismatchWithFunctions ==
    (~userdata.noop /\ Len(userdata.lambdaAWSInfos) # 0 /\ bucket.region # SessionRegion) =>
        /\ "createPackageStep" \notin Range(phases)
        /\ PreconditionsReturned =>
            /\ ret.err # "nil"
            /\ ret.err = RegionMismatchError <=> BucketCallMade("BucketRegion", TRUE)
            /\ BucketCallMade("BucketRegion", TRUE) <=>
                  /\ BucketCallMade("BucketVersioningEnabled", TRUE)
                  /\ ~BucketCallMade("BucketRegion", FALSE)
                  /\ ~(userdata.codePipelineTrigger /\ ~bucket.versioningEnabled)

C19_Witness ==
    /\ ~userdata.noop /\ Len(userdata.lambdaAWSInfos) # 0
    /\ bucket.region # SessionRegion
    /\ PreconditionsReturned
    /\ ret.err = RegionMismatchError

\* C20 (as stated): in a run that is not a dry run, with a trigger key
\* verify-preconditions fails if the bucket is not versioned; without a trigger
\* key an unversioned bucket does not fail the step, and the context's
\* versioning flag records the bucket's actual state.
C20_VersioningPrecondition ==
    (~userdata.noop /\ PreconditionsReturned) =>
        /\ (userdata.codePipelineTrigger /\ ~bucket.versioningEnabled) => ret.err # "nil"
        /\ (~userdata.codePipelineTrigger /\ ret.err # "nil")
              => ret.err \in {"versioning policy error", "failed to determine region",
                              RegionMismatchError}
        /\ (~userdata.codePipelineTrigger /\ ret.err # "versioning policy error")
              => s3BucketVersioningEnabled = bucket.versioningEnabled

\* C20 (amended): in a run that is not a dry run and has at least one function,
\* with a trigger key verify-preconditions fails if the bucket is not versioned;
\* the step fails for want of versioning only with a trigger key, and once the
\* versioning lookup has succeeded the context's versioning flag records the
\* bucket's actual state.
C20_VersioningWithFunctions ==
    (~userdata.noop /\ Len(userdata.lambdaAWSInfos) # 0 /\ PreconditionsReturned) =>
        /\ (userdata.codePipelineTrigger /\ ~bucket.versioningEnabled)
              => ret.err \in {VersioningError, "versioning policy error"}
        /\ ret.err = VersioningError <=>
              /\ userdata.codePipelineTrigger /\ ~bucket.versioningEnabled
              /\ BucketCallMade("BucketVersioningEnabled", TRUE)
        /\ BucketCallMade("BucketVersioningEnabled", TRUE)
              => s3BucketVersioningEnabled = bucket.versioningEnabled
        /\ (~userdata.codePipelineTrigger /\ ~bucket.versioningEnabled
              /\ bucket.region = SessionRegion /\ ~BucketCallMade("BucketVersioningEnabled", FALSE)
              /\ ~BucketCallMade("BucketRegion", FALSE))
              => ret.err = "nil" /\ ~s3BucketVersioningEnabled

C20_Witness ==
    /\ ~userdata.noop /\ Len(userdata.lambdaAWSInfos) # 0
    /\ userdata.codePipelineTrigger /\ ~bucket.versioningEnabled
    /\ PreconditionsReturned
    /\ ret.err = VersioningError
    /\ "createPackageStep" \notin Range(phases)

\* ---------------------------------------------------------------------------
\* The upload fan-out

\* C21 (as stated): the create-upload step builds a task for the code archive
\* in every run, and a task for the site archive iff a site was configured.
C21_UploadTaskPerArtifact ==
    callStack = <<"createUploadStep">> =>
        /\ CodeZip \in DOMAIN pool
        /\ SiteZip \in DOMAIN pool <=> userdata.s3Site
        /\ DOMAIN pool \subseteq {CodeZip, SiteZip}

\* C21 (amended): the create-upload step builds a task for the code archive iff
\* at least one function was provided, a task for the site archive iff a site
\* was configured, and no other task.
C21_UploadTaskPerProvidedArtifact ==
    callStack = <<"createUploadStep">> =>
        /\ CodeZip \in DOMAIN pool <=> Len(userdata.lambdaAWSInfos) # 0
        /\ SiteZip \in DOMAIN pool <=> userdata.s3Site
        /\ DOMAIN pool \subseteq {CodeZip, SiteZip}

C21_Witness ==
    /\ callStack = <<"createUploadStep">>
    /\ DOMAIN pool = {CodeZip, SiteZip}
    /\ PoolDone

\* C22: at both fan-outs the controlling thread goes on only when every task
\* of the pool has completed; every task has then run to its end whatever its
\* siblings did (it has made its remote call unless it failed before it or the
\* run is a dry run); and if some task failed the operation returns an error,
\* hands over to no next step and makes no further remote call (the stack is
\* not described).
C22_FanOutJoin ==
    [][(pc = "poolWait" /\ pc' # "poolWait") =>
          /\ \A t \in DOMAIN pool : pool[t].pc = "done"
          /\ \A t \in DOMAIN pool :
                \/ \E c \in BagToSet(remoteCalls) : c.arg = t
                \/ pool[t].err \in {"TemporaryFile", "AddToZip"}
                \/ userdata.noop
          /\ (\E t \in DOMAIN pool : pool[t].err # "nil") =>
                /\ ret'.err # "nil" /\ ret'.next = "nil"
                /\ remoteCalls' = remoteCalls
                /\ pc' = "stepReturned"]_vars

\* A fan-out of at least two tasks has drained with a failed and a successful task
C22_Witness ==
    /\ pc = "poolWait"
    /\ \A t \in DOMAIN pool : pool[t].pc = "done"
    /\ \E t, u \in DOMAIN pool :
          /\ pool[t].err # "nil" /\ pool[u].err = "nil"
          /\ Call("UpdateFunctionCode", u, TRUE) \in BagToSet(remoteCalls)

\* ---------------------------------------------------------------------------
\* In-place updates

\* C23 (as stated): an in-place update whose change-set holds a change that is
\* not a Modify of a function resource fails with the error that lists every
\* such change, and issues no function-code update call, whatever else the
\* change-set holds.
C23_UnsupportedChangesRejected ==
    \A cs \in changeSets :
        (\E i \in 1..Len(cs.changes) : cs.changes[i] # "ModifyFunction") =>
            /\ pc # "panicked"
            /\ ret.err = UnsupportedError(InvalidInPlaceRequests(cs.changes))
            /\ \A c \in BagToSet(remoteCalls) : c.call # "UpdateFunctionCode"

\* The calls made for the task or the target arg
CallsFor(arg) ==
    CopiesIn(Call("UpdateFunctionCode", arg, TRUE), remoteCalls)
      + CopiesIn(Call("UpdateFunctionCode", arg, FALSE), remoteCalls)
      + CopiesIn(Call("DeleteChangeSet", arg, TRUE), remoteCalls)
      + CopiesIn(Call("DeleteChangeSet", arg, FALSE), remoteCalls)
      + CopiesIn(Call("DescribeStacks", arg, TRUE), remoteCalls)
      + CopiesIn(Call("DescribeStacks", arg, FALSE), remoteCalls)

\* C24 (as stated): an in-place update whose change-set holds only Modify
\* changes of function resources starts one function-code update per change
\* and the deletion of the change-set; when the fan-out is over exactly one
\* call has been made for each of them, and the stack is described only then,
\* with the change-set deleted.
C24_InPlaceUpdatesThenDescribe ==
    [][/\ \A cs \in changeSets' \ changeSets :
             (cs.changes # <<>> /\ \A i \in 1..Len(cs.changes) : cs.changes[i] = "ModifyFunction")
               => /\ pc' = "poolWait"
                  /\ DOMAIN pool' = {UpdateTask(i) : i \in 1..Len(cs.changes)}
                                        \cup {DeleteChangeSetTask}
                  /\ \A t \in DOMAIN pool' : CallsFor(t) = 0
       /\ (pc = "poolWait" /\ callStack # <<"createUploadStep">> /\ pc' # "poolWait")
             => \A t \in DOMAIN pool : CallsFor(t) = 1
       /\ (remoteCalls' # remoteCalls /\ CallsFor("stack")' = CallsFor("stack") + 1)
             => /\ pc = "poolWait" /\ callStack # <<"createUploadStep">>
                /\ \A t \in DOMAIN pool :
                      /\ pool[t].pc = "done" /\ pool[t].err = "nil"
                      /\ \E c \in BagToSet(remoteCalls) : c.arg = t /\ c.ok
                /\ changeSets = {}]_vars

\* ---------------------------------------------------------------------------
\* The apply operation

\* The number of calls named name that have been made
CallCount(name) ==
    BagCardinality([c \in {x \in DOMAIN remoteCalls : x.call = name} |-> remoteCalls[c]])

\* C25: the apply operation works in exactly one mode. With a trigger key it
\* packages the template and makes no template upload, change-set or
\* convergence call; otherwise in a dry run it makes no remote call; otherwise
\* it uploads the template, at most once and in every run that succeeds, and
\* once that upload has succeeded makes either the in-place update (flag set)
\* or the convergence (flag clear), one of the two and never both.
C25_ApplyChoosesOneMode ==
    LET templateUploads == CopiesIn(Call("Upload", TemplateFile, TRUE), remoteCalls)
                             + CopiesIn(Call("Upload", TemplateFile, FALSE), remoteCalls)
        uploaded == Call("Upload", TemplateFile, TRUE) \in BagToSet(remoteCalls)
        inPlaceCalls == CallCount("CreateStackChangeSet")
        convergeCalls == CallCount("ConvergeStackState")
        applyCalls == Cardinality({c \in DOMAIN remoteCalls :
                          \/ c.call = "Upload" /\ c.arg = TemplateFile
                          \/ c.call \in {"CreateStackChangeSet", "ConvergeStackState",
                                          "UpdateFunctionCode", "DeleteChangeSet",
                                          "DescribeStacks"}})
    IN  /\ "applyCloudFormationOperation" \notin Range(phases) => applyCalls = 0
        /\ userdata.codePipelineTrigger => applyCalls = 0
        /\ (~userdata.codePipelineTrigger /\ userdata.noop) => applyCalls = 0
        /\ (~userdata.codePipelineTrigger /\ ~userdata.noop /\ pc # "inPlace")
             => /\ templateUploads <= 1
                /\ (pc = "returned" /\ retErr = "nil") => uploaded
                /\ ~uploaded => inPlaceCalls = 0 /\ convergeCalls = 0
                /\ (uploaded /\ userdata.inPlace) => inPlaceCalls = 1 /\ convergeCalls = 0
                /\ (uploaded /\ ~userdata.inPlace) => inPlaceCalls = 0 /\ convergeCalls = 1
        /\ (userdata.codePipelineTrigger /\ pc = "returned" /\ retErr = "nil")
             => PipelineZip \in files

C25_Witness ==
    /\ ~userdata.codePipelineTrigger /\ ~userdata.noop /\ userdata.inPlace
    /\ Call("Upload", TemplateFile, TRUE) \in BagToSet(remoteCalls)
    /\ CallCount("CreateStackChangeSet") = 1
    /\ CallCount("UpdateFunctionCode") = 2
    /\ pc = "returned" /\ retErr = "nil"

\* ---------------------------------------------------------------------------
\* Extension hooks

\* C26: an error returned by an extension hook (PreBuild, PostBuild, archive
\* decoration, PreMarshall, service decoration, PostMarshall, validation)
\* aborts the workflow like any step error: the step returns it at once (what
\* follows the hook in the step has not happened), no later step or phase is
\* invoked, rollback runs once and Provision returns the wrapped error.
C26_HookErrorAborts ==
    LET types == {r.type : r \in cfTemplate} IN
    ret.err \in {"PreBuild", "PostBuild", "Archive", "PreMarshall", "ServiceDecorator",
                 "PostMarshall", "Validation"} =>
        /\ ret.next = "nil"
        /\ pc \in {"stepReturned", "rollback", "rollbackWait", "errReturn", "returned"}
        /\ stepLog[Len(stepLog)] = step
        /\ phases[Len(phases)] = step
        /\ step = IF ret.err \in {"PreBuild", "PostBuild", "Archive"}
                  THEN "createPackageStep" ELSE "ensureCloudFormationStack"
        /\ ret.err \in {"PreBuild", "PostBuild"} => CodeZip \notin files
        /\ step = "createPackageStep" => pool = <<>> /\ s3objects = {}
        /\ ret.err = "PreMarshall" =>
              types \cap {"AWS::Lambda::Function", "AWS::ApiGateway::RestApi",
                          "AWS::S3::Bucket"} = {}
        /\ ret.err = "ServiceDecorator" =>
              /\ "AWS::S3::Bucket" \notin types
              /\ \A r \in cfTemplate : "envVarDiscoveryInformation" \notin r.env
        /\ step = "ensureCloudFormationStack" => TemplateFile \notin files
        /\ pc \in {"rollbackWait", "errReturn", "returned"} => rollbackCount = 1
        /\ pc = "returned" => retErr = WrapErr(ret.err, "Failed to provision service")
                                /\ retErr # "nil"

C26_Witness ==
    /\ ret.err = "Validation"
    /\ pc = "returned"
    /\ rollbackCount = 1
    /\ retErr = "Failed to provision service: Validation"
    /\ \E x \in DOMAIN rb : rb[x].state = "succeeded"

\* C27: every validation hook receives its own deep copy of the template. The
\* hooks are called in order, each is handed a template equal to the shared
\* one whatever the hooks before it did to theirs, the shared template is not
\* changed by any of them, and no hook is called after one has failed.
C27_ValidationHooksIsolated ==
    LET calls == validation.calls
        validators == validation.validators
    IN  /\ \A i \in 1..Len(calls) :
            /\ calls[i].hook = i
            /\ calls[i].template = cfTemplate
            /\ i < Len(calls) => ~validators[i].fails
        /\ cfTemplate = EnsureTemplate({}, userdata, Len(EnsureOrder) - 1)
        /\ Len(calls) <= Len(validators)
        /\ (pc = "validationReturned" /\ ret.err = "nil") =>
              /\ Len(calls) = Len(validators)
              /\ \A i \in 1..Len(calls) : ~validators[i].fails
        /\ (calls # <<>> /\ validators[Len(calls)].fails) =>
              /\ pc = "validationReturned"
              /\ ret.err = "Service failed to pass validation"

C27_Witness ==
    /\ Len(validation.calls) = 2
    /\ validation.calls[1].left # validation.calls[1].template
    /\ validation.calls[2].left = {}
    /\ cfTemplate # {}
    /\ pc = "validationReturned"
    /\ ret.err = "nil"

\* ---------------------------------------------------------------------------
\* The rollback and finalizer lists

\* C28: the rollback list and the finalizer list change only in steps of the
\* controlling thread: never in a step of a task of a running fan-out (no
\* pool exists before or after the step) and never once rollback has begun.
C28_ListsAppendedByControllingThread ==
    [][(rollbackFunctions' # rollbackFunctions \/ finalizerFunctions' # finalizerFunctions)
          => /\ pool = <<>> /\ pool' = <<>>
             /\ rollbackCount = 0 /\ rollbackCount' = 0]_vars

\* C29: failures of rollback actions, rollback hooks and finalizers are never
\* escalated. A failed run returns the failing step's error, wrapped, whatever
\* the rollback units did; every rollback unit has been invoked once and has
\* returned, failed ones included, before Provision returns; and a run whose
\* step chain succeeded returns nil even when a finalizer failed.
C29_CleanupFailuresNotEscalated ==
    /\ (pc = "returned" /\ ret.err # "nil") =>
          /\ retErr = "Failed to provision service: " \o ret.err
          /\ rollbackCount = 1
          /\ DOMAIN rb = RollbackUnits(rollbackFunctions, userdata)
          /\ \A x \in DOMAIN rb :
                /\ rb[x].state \in {"succeeded", "failed", "returned"}
                /\ rb[x].calls = 1
    /\ (pc = "returned" /\ TerminalResult) => retErr = "nil" /\ rollbackCount = 0

\* Provision returned the step's error after one rollback action failed, one
\* succeeded and the rollback hook returned
C29_Witness ==
    /\ pc = "returned"
    /\ retErr = "Failed to provision service: ConvergeStackState failed"
    /\ \E x, y, z \in DOMAIN rb :
        /\ x[1] = "function" /\ rb[x].state = "failed"
        /\ y[1] = "function" /\ rb[y].state = "succeeded"
        /\ z[1] = "hook" /\ rb[z].state = "returned"

\* ---------------------------------------------------------------------------
\* Step durations

\* C30: every step of the canonical sequence appends its own duration entry
\* before it returns: whenever a step has just returned, and at the end of a
\* successful run, the list holds one entry per phase begun.
C30_EveryStepRecordsDuration ==
    (pc = "stepReturned" \/ (pc \in {"finalize", "returned"} /\ TerminalResult)) =>
        Len(stepDurations) = Len(phases)

\* C30, amended: every step of the canonical sequence other than validate
\* postconditions and the apply operation appends its own named duration entry
\* before it returns (the apply operation runs inside the ensure-stack step,
\* whose entry covers it): whenever a step has just returned, and at the end
\* of a successful run, the list holds the names of those phases begun, in
\* execution order.
C30_TimedStepsRecordDuration ==
    LET timed == SelectSeq(phases, LAMBDA p : p \notin {"validateSpartaPostconditions",
                                                         "applyCloudFormationOperation"})
        name(p) == CASE p = "verifyIAMRoles" -> "Verifying IAM roles"
                     [] p = "verifyAWSPreconditions" -> "Verifying AWS preconditions"
                     [] p = "createPackageStep" -> "Creating code bundle"
                     [] p = "createUploadStep" -> "Uploading code"
                     [] p = "ensureCloudFormationStack" ->
                            IF userdata.inPlace THEN "Updating Lambda function code "
                            ELSE "Ensuring CloudFormation stack"
    IN  (pc = "stepReturned" \/ (pc \in {"finalize", "returned"} /\ TerminalResult)) =>
            stepDurations = [i \in 1..Len(timed) |-> name(timed[i])]

\* A successful in-place run: seven phases, five entries
C30_Witness ==
    /\ pc = "returned" /\ retErr = "nil"
    /\ userdata.inPlace
    /\ Len(phases) = 7
    /\ Len(stepDurations) = 5
    /\ stepDurations[5] = "Updating Lambda function code "

\* C31: after a successful full-convergence run the step durations are exactly
\* 'Verifying IAM roles', 'Verifying AWS preconditions', 'Creating code
\* bundle', 'Uploading code', 'Ensuring CloudFormation stack', in that order,
\* and there is no 'Rollback' entry.
C31_DurationSummary ==
    (/\ pc = "returned" /\ retErr = "nil"
     /\ Call("ConvergeStackState", "stack", TRUE) \in BagToSet(remoteCalls)) =>
        stepDurations = <<"Verifying IAM roles", "Verifying AWS preconditions",
                          "Creating code bundle", "Uploading code",
                          "Ensuring CloudFormation stack">>

\* A full-convergence run has returned nil
C31_Witness ==
    /\ pc = "returned" /\ retErr = "nil"
    /\ ~userdata.noop /\ ~userdata.inPlace /\ ~userdata.codePipelineTrigger
    /\ Call("ConvergeStackState", "stack", TRUE) \in BagToSet(remoteCalls)
    /\ Len(stepDurations) = 5
    /\ finalizersRun # <<>>

\* C32: the operation timeout handed to stack convergence is 20 minutes,
\* except that it is 60 minutes whenever the template holds at least one
\* CloudFront distribution; no other value is used.
C32_OperationTimeout ==
    \A c \in DOMAIN remoteCalls :
        c.call = "ConvergeStackState" =>
            /\ c.arg \in {20, 60}
            /\ c.arg = 60 <=> \E r \in cfTemplate : r.type = "AWS::CloudFront::Distribution"

\* Convergence was called for a template with a distribution among other resources
C32_Witness ==
    /\ \E c \in DOMAIN remoteCalls : c.call = "ConvergeStackState" /\ c.arg = 60
    /\ \E r \in cfTemplate : r.type = "AWS::Lambda::Function"
    /\ Cardinality(cfTemplate) = 3

\* ---------------------------------------------------------------------------
\* The ensure-stack step

\* C33: the sub-phases of the ensure-stack step run in the order PreMarshall
\* hooks, per-function export, gateway export, service-decoration hooks,
\* discovery annotation, static-site export, PostMarshall hooks, final
\* annotation, validation hooks, and then the apply operation. When the step
\* has stopped at one of them the template shows the work of every configured
\* sub-phase before it and of none from it on; the apply operation (which
\* serializes the template) begins only on the complete template.
C33_EnsureOrder ==
    LET order == <<"PreMarshall", "export", "APIGateway", "ServiceDecorator",
                   "annotateDiscoveryInfo", "S3Site", "PostMarshall",
                   "annotateMaterializedTemplate", "Validation", "apply">>
        configured(p) == CASE p = "export" -> userdata.hasLambda
                           [] p = "APIGateway" -> userdata.api
                           [] p = "annotateDiscoveryInfo" -> userdata.hasLambda
                           [] p = "S3Site" -> userdata.s3Site
                           [] OTHER -> FALSE
        done(p) == CASE p = "export" ->
                          \E r \in cfTemplate : r.type = "AWS::Lambda::Function"
                     [] p = "APIGateway" ->
                          \E r \in cfTemplate : r.type = "AWS::ApiGateway::RestApi"
                     [] p = "annotateDiscoveryInfo" ->
                          \E r \in cfTemplate : "envVarDiscoveryInformation" \in r.env
                     [] p = "S3Site" ->
                          \E r \in cfTemplate : r.type = "AWS::S3::Bucket"
                     [] OTHER -> FALSE
        reached == IF "applyCloudFormationOperation" \in Range(phases) THEN 10
                   ELSE IF step = "ensureCloudFormationStack" /\ ret.err \in Range(order)
                        THEN CHOOSE n \in 1..9 : order[n] = ret.err
                        ELSE 0
    IN  /\ reached # 0 =>
            \A m \in 1..9 : done(order[m]) <=> (m < reached /\ configured(order[m]))
        /\ (TemplateFile \in files \/ TemplateFile \in s3objects
              \/ \E c \in DOMAIN remoteCalls : c.call = "ConvergeStackState")
             => reached = 10

\* The step stopped at the static-site export of a service with functions and a gateway
C33_Witness ==
    /\ step = "ensureCloudFormationStack" /\ ret.err = "S3Site"
    /\ userdata.hasLambda /\ userdata.api
    /\ \E r \in cfTemplate : r.type = "AWS::ApiGateway::RestApi"
    /\ \E r \in cfTemplate : "envVarDiscoveryInformation" \in r.env

\* ---------------------------------------------------------------------------
\* The validate-postconditions step

C35_CheckAfterExport ==
    (pc = "stepReturned" /\ step = "validateSpartaPostconditions" /\ userdata.hasLambda)
        => \E r \in cfTemplate : r.type = "AWS::Lambda::Function"

\* ---------------------------------------------------------------------------
\* Registrations of the uploads

\* C36: an upload registers its file-cleanup finalizer before the remote call
\* and its undo action only after the call has succeeded. While no fan-out is
\* in progress every attempted upload has left exactly one finalizer, every
\* successful upload exactly one undo action as well, a failed one none, and
\* a dry run has left no entry of an upload in either list (the template
\* file's cleanup of the change-pipeline packaging is not an upload's).
C36_UploadRegistrations ==
    LET count(list, t) == Cardinality({i \in DOMAIN list : list[i] = t})
        succeeded(t) == CopiesIn(Call("Upload", t, TRUE), remoteCalls)
        failed(t) == CopiesIn(Call("Upload", t, FALSE), remoteCalls)
        uploads == {CodeZip, SiteZip}
                     \cup (IF userdata.codePipelineTrigger THEN {} ELSE {TemplateFile})
    IN  /\ pool = <<>> =>
            \A t \in uploads :
                /\ count(finalizerFunctions, t) = succeeded(t) + failed(t)
                /\ count(rollbackFunctions, t) = succeeded(t)
        /\ userdata.noop =>
            \A t \in uploads : count(finalizerFunctions, t) + count(rollbackFunctions, t) = 0
        /\ \A t \in DOMAIN pool :
              pool[t].pc \in {"start", "registerFinalizer", "appendFinalizer"} =>
                  succeeded(t) + failed(t) = 0

\* C37: when the code-archive upload and the static-site upload ran
\* concurrently and both succeeded, then once the upload step has returned the
\* rollback list holds the undo action of each and the finalizer list the
\* cleanup of each local file.
C37_NoLostRegistration ==
    (/\ "createUploadStep" \in Range(phases) /\ pool = <<>>
     /\ Call("Upload", CodeZip, TRUE) \in DOMAIN remoteCalls
     /\ Call("Upload", SiteZip, TRUE) \in DOMAIN remoteCalls) =>
        /\ {CodeZip, SiteZip} \subseteq Range(rollbackFunctions)
        /\ {CodeZip, SiteZip} \subseteq Range(finalizerFunctions)

\* ---------------------------------------------------------------------------
\* The in-place update

\* C38: an in-place update never reads the key of an absent code-archive
\* location: whenever the change-set of an attempt holds the Modify of a
\* function, for which an update request is built, the code-archive location
\* of the context is present, and the attempt does not end in a nil dereference.
C38_CodeArchiveLocationPresent ==
    /\ (\E cs \in changeSets : "ModifyFunction" \in Range(cs.changes)) => s3CodeZipURL # NilURL
    /\ pc # "panicked"

\* C39: every change-set created by an in-place update attempt is deleted
\* before the attempt returns: a change-set exists only while the attempt that
\* created it is still running its tasks, whether the attempt succeeds, rejects
\* the change-set for unsupported changes, or finds it empty.
C39_ChangeSetDeletedBeforeReturn ==
    (changeSets # {} /\ pc # "panicked") =>
        /\ pc = "poolWait"
        /\ callStack # <<"createUploadStep">>

\* C40: an in-place update attempt whose change-set is empty returns the error
\* "no changes detected" and no function-code update call is made in the run;
\* Provision then returns that error wrapped, after having run rollback once,
\* and the undo action of the template upload and of the code-archive upload
\* of the run has been invoked and has returned.
C40_EmptyChangeSetRollsBack ==
    InPlaceChangeSet(<<>>) \in changeSets =>
        /\ ret.err = "no changes detected"
        /\ \A c \in BagToSet(remoteCalls) : c.call # "UpdateFunctionCode"
        /\ pc \in {"stepReturned", "rollback", "rollbackWait", "errReturn", "returned"}
        /\ pc = "returned" =>
              /\ retErr = WrapErr("no changes detected", "Failed to provision service")
              /\ rollbackCount = 1
              /\ \A o \in Uploaded \cap {TemplateFile, CodeZip} : UndoReturned(o)
====
